---------------------------- MODULE Spec2Model ----------------------------
(***************************************************************************)
(* A model of MiniShellAgent: the CommandAgent loop (agents.py), the       *)
(* TerminalTool with its confirmation policy and execution paths           *)
(* (tools.py) and the command classifier Config.is_dangerous_command       *)
(* (config.py).                                                            *)
(*                                                                         *)
(* Text is modelled as Python sees it: a str is a sequence of code points, *)
(* here a sequence of one-element strings.  An ASCII character is itself;  *)
(* any other code point is written "U+XXXX" (the module's strings are      *)
(* ASCII only), so the Chinese texts of the source keep their exact        *)
(* lengths and their exact characters.                                     *)
(***************************************************************************)
EXTENDS Integers, Sequences, FiniteSets, TLC

-----------------------------------------------------------------------------
(* Python str operations used by the code.                                 *)

\* str.lower() on one character: ASCII capitals map to small letters.
LowerOf == "A" :> "a" @@ "B" :> "b" @@ "C" :> "c" @@ "D" :> "d" @@ "E" :> "e" @@ "F" :> "f" @@
    "G" :> "g" @@ "H" :> "h" @@ "I" :> "i" @@ "J" :> "j" @@ "K" :> "k" @@ "L" :> "l" @@
    "M" :> "m" @@ "N" :> "n" @@ "O" :> "o" @@ "P" :> "p" @@ "Q" :> "q" @@ "R" :> "r" @@
    "S" :> "s" @@ "T" :> "t" @@ "U" :> "u" @@ "V" :> "v" @@ "W" :> "w" @@ "X" :> "x" @@
    "Y" :> "y" @@ "Z" :> "z"


Lower(c) == IF c \in DOMAIN LowerOf THEN LowerOf[c] ELSE c

\* str.lower()
lower(s) == [i \in 1..Len(s) |-> Lower(s[i])]

\* The characters str.strip() removes and the regex class \s matches.
IsSpace(c) == c \in {" ", "\t", "\n", "\r"}

\* The regex class \w on the ASCII range.
IsWord(c) ==
    c \in {"a","b","c","d","e","f","g","h","i","j","k","l","m","n","o","p","q","r","s","t",
           "u","v","w","x","y","z","A","B","C","D","E","F","G","H","I","J","K","L","M","N",
           "O","P","Q","R","S","T","U","V","W","X","Y","Z","0","1","2","3","4","5","6","7",
           "8","9","_"}

SetMin(S) == CHOOSE x \in S : \A y \in S : x <= y
SetMax(S) == CHOOSE x \in S : \A y \in S : x >= y

\* str.strip()
strip(s) ==
    LET keep == {i \in 1..Len(s) : ~IsSpace(s[i])}
    IN  IF keep = {} THEN <<>> ELSE SubSeq(s, SetMin(keep), SetMax(keep))

\* s[i:i+len(lit)] == lit, for a 1-based position i
LitAt(s, i, lit) ==
    /\ i >= 1
    /\ i + Len(lit) - 1 <= Len(s)
    /\ \A k \in 1..Len(lit) : s[i + k - 1] = lit[k]

\* lit in s
Contains(s, lit) == \E i \in 1..(Len(s) - Len(lit) + 1) : LitAt(s, i, lit)

\* s.startswith(lit)
startswith(s, lit) == LitAt(s, 1, lit)

\* s.find(lit) as a 1-based position, 0 when lit does not occur
find(s, lit) ==
    LET at == {i \in 1..(Len(s) - Len(lit) + 1) : LitAt(s, i, lit)}
    IN  IF at = {} THEN 0 ELSE SetMin(at)

\* s.split(sep): the pieces between the occurrences of sep, found left to right
\* without overlap.
RECURSIVE split(_, _)
split(s, sep) ==
    LET p == find(s, sep)
    IN  IF p = 0 THEN <<s>>
        ELSE <<SubSeq(s, 1, p - 1)>> \o split(SubSeq(s, p + Len(sep), Len(s)), sep)

\* A non-empty run of whitespace fills s[i..j] (the regex \s+ between two items).
SpaceRun(s, i, j) == i >= 1 /\ i <= j /\ j <= Len(s) /\ \A k \in i..j : IsSpace(s[k])

-----------------------------------------------------------------------------
(* Config.is_dangerous_command, config.py:160-197.                         *)

\* Config.DANGEROUS_COMMANDS (config.py:43-83), one character sequence per literal.
DANGEROUS_COMMANDS == {
    <<"r","m"," ","-","r","f"," ","/">>,
    <<"r","m"," ","-","r","f"," ","/","b","i","n">>,
    <<"r","m"," ","-","r","f"," ","/","u","s","r">>,
    <<"r","m"," ","-","r","f"," ","/","e","t","c">>,
    <<"r","m"," ","-","r","f"," ","/","v","a","r">>,
    <<"r","m"," ","-","r","f"," ","/","s","y","s">>,
    <<"r","m"," ","-","r","f"," ","/","p","r","o","c">>,
    <<"r","m"," ","-","r","f"," ","/","b","o","o","t">>,
    <<"r","m"," ","-","r","f"," ","/","r","o","o","t">>,
    <<"m","k","f","s">>,
    <<"f","d","i","s","k">>,
    <<"p","a","r","t","e","d">>,
    <<"d","d"," ","i","f","=">>,
    <<"d","d"," ","o","f","=">>,
    <<":","(",")","{",":","|",":","&","}",";",":">>,
    <<"c","h","m","o","d"," ","-","R"," ","7","7","7"," ","/">>,
    <<"c","h","m","o","d"," ","-","R"," ","0","0","0"," ","/">>,
    <<"c","h","o","w","n"," ","-","R">>,
    <<"s","u","d","o"," ","r","m">>,
    <<"s","u","d","o"," ","m","k","f","s">>,
    <<"s","u","d","o"," ","f","d","i","s","k">>,
    <<"s","u","d","o"," ","d","d">>,
    <<"s","u","d","o"," ","c","h","m","o","d">>,
    <<"s","u","d","o"," ","c","h","o","w","n">>,
    <<"s","y","s","t","e","m","c","t","l"," ","s","t","o","p">>,
    <<"s","y","s","t","e","m","c","t","l"," ","d","i","s","a","b","l","e">>,
    <<"s","e","r","v","i","c","e"," ","s","t","o","p">>,
    <<"i","p","t","a","b","l","e","s"," ","-","F">>,
    <<"i","p","t","a","b","l","e","s"," ","-","X">>,
    <<"e","x","p","o","r","t"," ","P","A","T","H","=">>,
    <<"u","n","s","e","t"," ","P","A","T","H">>}

\* dangerous_sudo_ops (config.py:184).
dangerous_sudo_ops == {
    <<"r","m">>,
    <<"m","k","f","s">>,
    <<"f","d","i","s","k">>,
    <<"d","d">>,
    <<"c","h","m","o","d">>,
    <<"c","h","o","w","n">>,
    <<"f","o","r","m","a","t">>,
    <<"w","i","p","e">>}

\* system_paths (config.py:192).
system_paths == {
    <<"/","b","i","n">>,
    <<"/","u","s","r">>,
    <<"/","e","t","c">>,
    <<"/","v","a","r">>,
    <<"/","s","y","s">>,
    <<"/","p","r","o","c">>,
    <<"/","b","o","o","t">>,
    <<"/","r","o","o","t">>,
    <<"/","s","b","i","n">>,
    <<"/","l","i","b">>}

\* The alternatives of DANGEROUS_PATTERNS[1] (config.py:88).
system_dir_names == {
    <<"b","i","n">>,
    <<"u","s","r">>,
    <<"e","t","c">>,
    <<"v","a","r">>,
    <<"s","y","s">>,
    <<"p","r","o","c">>,
    <<"b","o","o","t">>,
    <<"r","o","o","t">>}

\* The alternatives of DANGEROUS_PATTERNS[5] (config.py:92).
sudo_pattern_ops == {
    <<"r","m">>,
    <<"m","k","f","s">>,
    <<"f","d","i","s","k">>,
    <<"d","d">>,
    <<"c","h","m","o","d">>,
    <<"c","h","o","w","n">>}

\* high_risk_keywords (tools.py:430).
high_risk_keywords == {
    <<"r","m"," ","-","r","f">>,
    <<"m","k","f","s">>,
    <<"f","d","i","s","k">>,
    <<"d","d"," ","i","f","=">>,
    <<"d","d"," ","o","f","=">>,
    <<"f","o","r","m","a","t">>,
    <<"w","i","p","e">>}

Positions(s) == 1..Len(s)

\* DANGEROUS_PATTERNS[0]: rm\s+-rf\s+/[^/]
Pattern_rm_rf_path(s) ==
    \E i, j, k \in Positions(s) :
        /\ LitAt(s, i, <<"r","m">>)
        /\ SpaceRun(s, i + 2, j)
        /\ LitAt(s, j + 1, <<"-","r","f">>)
        /\ SpaceRun(s, j + 4, k)
        /\ LitAt(s, k + 1, <<"/">>)
        /\ k + 2 <= Len(s)
        /\ s[k + 2] # "/"

\* DANGEROUS_PATTERNS[1]: rm\s+-rf\s+/(bin|usr|etc|var|sys|proc|boot|root)
Pattern_rm_rf_system(s) ==
    \E i, j, k \in Positions(s) :
        /\ LitAt(s, i, <<"r","m">>)
        /\ SpaceRun(s, i + 2, j)
        /\ LitAt(s, j + 1, <<"-","r","f">>)
        /\ SpaceRun(s, j + 4, k)
        /\ LitAt(s, k + 1, <<"/">>)
        /\ \E d \in system_dir_names : LitAt(s, k + 2, d)

\* DANGEROUS_PATTERNS[2]: mkfs\.?\w*\s+/
Pattern_mkfs(s) ==
    \E i, w, k \in Positions(s) :
        /\ LitAt(s, i, <<"m","k","f","s">>)
        \* w is the last position of mkfs\.?\w*
        /\ \/ w = i + 3
           \/ w >= i + 4 /\ (s[i + 4] = "." \/ IsWord(s[i + 4]))
                         /\ \A p \in (i + 5)..w : IsWord(s[p])
        /\ SpaceRun(s, w + 1, k)
        /\ LitAt(s, k + 1, <<"/">>)

\* DANGEROUS_PATTERNS[3]: dd\s+if=.*\s+of=/dev/   (. matches all but a newline)
Pattern_dd(s) ==
    \E i, j, a, k \in Positions(s) :
        /\ LitAt(s, i, <<"d","d">>)
        /\ SpaceRun(s, i + 2, j)
        /\ LitAt(s, j + 1, <<"i","f","=">>)
        \* .* fills s[j+4 .. a-1], \s+ fills s[a..k]
        /\ a >= j + 4
        /\ \A p \in (j + 4)..(a - 1) : s[p] # "\n"
        /\ SpaceRun(s, a, k)
        /\ LitAt(s, k + 1, <<"o","f","=","/","d","e","v","/">>)

\* DANGEROUS_PATTERNS[4]: chmod\s+[0-7]{3}\s+/
Pattern_chmod(s) ==
    \E i, j, k \in Positions(s) :
        /\ LitAt(s, i, <<"c","h","m","o","d">>)
        /\ SpaceRun(s, i + 5, j)
        /\ j + 3 <= Len(s)
        /\ \A p \in (j + 1)..(j + 3) : s[p] \in {"0","1","2","3","4","5","6","7"}
        /\ SpaceRun(s, j + 4, k)
        /\ LitAt(s, k + 1, <<"/">>)

\* DANGEROUS_PATTERNS[5]: sudo\s+(rm|mkfs|fdisk|dd|chmod|chown)
Pattern_sudo(s) ==
    \E i, j \in Positions(s) :
        /\ LitAt(s, i, <<"s","u","d","o">>)
        /\ SpaceRun(s, i + 4, j)
        /\ \E op \in sudo_pattern_ops : LitAt(s, j + 1, op)

\* DANGEROUS_PATTERNS[6]: :\(\)\{.*:\|.*&.*\};:
Pattern_fork_bomb(s) ==
    \E i, a, b, c \in Positions(s) :
        /\ LitAt(s, i, <<":","(",")","{">>)
        /\ a >= i + 4
        /\ LitAt(s, a, <<":","|">>)
        /\ b >= a + 2
        /\ s[b] = "&"
        /\ c >= b + 1
        /\ LitAt(s, c, <<"}",";",":">>)
        /\ \A p \in (i + 4)..(c - 1) : s[p] # "\n"

\* re.search(pattern, command_lower, re.IGNORECASE) for some pattern of
\* DANGEROUS_PATTERNS; the patterns' letters are lower case and so is the text.
MatchesDangerousPattern(s) ==
    \/ Pattern_rm_rf_path(s)
    \/ Pattern_rm_rf_system(s)
    \/ Pattern_mkfs(s)
    \/ Pattern_dd(s)
    \/ Pattern_chmod(s)
    \/ Pattern_sudo(s)
    \/ Pattern_fork_bomb(s)

\* Config.is_dangerous_command(command) when Config.SAFE_MODE = Config_SAFE_MODE.
is_dangerous_command(Config_SAFE_MODE, command) ==
    LET command_lower    == strip(lower(command))
        command_original == strip(command)
    IN  /\ Config_SAFE_MODE
        /\ \/ \E dangerous \in DANGEROUS_COMMANDS : Contains(command_lower, lower(dangerous))
           \/ MatchesDangerousPattern(command_lower)
           \/ /\ Contains(command_lower, <<"s","u","d","o">>)
              /\ \E op \in dangerous_sudo_ops : Contains(command_lower, op)
           \/ /\ Contains(command_lower, <<"r","m">>)
              /\ \/ Contains(command_lower, <<"-","r","f">>)
                 \/ Contains(command_lower, <<"-","r">>)
              /\ \E path \in system_paths : Contains(command_original, path)


-----------------------------------------------------------------------------
(* CommandAgent._parse_response, agents.py:421-503.                         *)

\* A JSON object none of whose keys the code reads.  command_is_str tells a
\* command that is a JSON string from one that is a JSON number; of the number,
\* command holds str(command).
EMPTY_OBJECT ==
    [keys |-> {}, command |-> <<>>, command_is_str |-> TRUE, status |-> <<>>,
     summary |-> <<>>, message |-> <<>>, thought |-> <<>>, options |-> <<>>,
     allow_custom_input |-> FALSE, interaction |-> FALSE]

\* AGENT_USER_TEMPLATE (prompts.py:326-328), the text before {task}
AGENT_USER_TEMPLATE_0 == <<"U+4EFB", "U+52A1", ":", " ">>

\* AGENT_USER_TEMPLATE, the text after {task}
AGENT_USER_TEMPLATE_1 == <<"\n", "\n", "U+8BF7", "U+7406", "U+89E3", "U+4EFB", "U+52A1",
    "U+5E76", "U+5F00", "U+59CB", "U+6267", "U+884C", "U+3002">>

\* AGENT_OBSERVATION_TEMPLATE (prompts.py:330-337), the text before {command}
AGENT_OBSERVATION_TEMPLATE_0 == <<"U+4E0A", "U+4E00", "U+4E2A", "U+547D", "U+4EE4", "U+7684",
    "U+6267", "U+884C", "U+7ED3", "U+679C", "U+FF1A", "\n", "\n", "U+547D", "U+4EE4", ":", " ">>

\* AGENT_OBSERVATION_TEMPLATE, the text between {command} and {success}
AGENT_OBSERVATION_TEMPLATE_1 == <<"\n", "U+6210", "U+529F", ":", " ">>

\* AGENT_OBSERVATION_TEMPLATE, the text between {success} and {output}
AGENT_OBSERVATION_TEMPLATE_2 == <<"\n", "U+8F93", "U+51FA", ":", " ">>

\* AGENT_OBSERVATION_TEMPLATE, the text between {output} and {error}
AGENT_OBSERVATION_TEMPLATE_3 == <<"\n", "U+9519", "U+8BEF", ":", " ">>

\* AGENT_OBSERVATION_TEMPLATE, the text after {error}
AGENT_OBSERVATION_TEMPLATE_4 == <<"\n", "\n", "U+8BF7", "U+6839", "U+636E", "U+8FD9", "U+4E2A",
    "U+7ED3", "U+679C", "U+FF0C", "U+51B3", "U+5B9A", "U+4E0B", "U+4E00", "U+6B65", "U+884C",
    "U+52A8", "U+3002">>

\* str(True)
STR_True == <<"T", "r", "u", "e">>

\* str(False)
STR_False == <<"F", "a", "l", "s", "e">>

\* agents.py:358  f"命令不合法: {msg}"
OBSERVATION_INVALID_PREFIX == <<"U+547D", "U+4EE4", "U+4E0D", "U+5408", "U+6CD5", ":", " ">>

\* agents.py:172
ERROR_NO_TASK == <<"N", "o", " ", "t", "a", "s", "k", " ", "p", "r", "o", "v", "i", "d", "e",
    "d">>

\* agents.py:418
ERROR_MAX_STEPS == <<"M", "a", "x", " ", "s", "t", "e", "p", "s", " ", "r", "e", "a", "c", "h",
    "e", "d">>

\* agents.py:214  f"LLM call failed: {error_msg}"
ERROR_LLM_FAILED_PREFIX == <<"L", "L", "M", " ", "c", "a", "l", "l", " ", "f", "a", "i", "l",
    "e", "d", ":", " ">>

\* agents.py:228  "LLM 返回 None 响应"
SUMMARY_NONE_RESPONSE == <<"L", "L", "M", " ", "U+8FD4", "U+56DE", " ", "N", "o", "n", "e", " ",
    "U+54CD", "U+5E94">>

\* agents.py:242  "LLM 返回空响应"
SUMMARY_EMPTY_RESPONSE == <<"L", "L", "M", " ", "U+8FD4", "U+56DE", "U+7A7A", "U+54CD", "U+5E94">>

\* agents.py:269  "未生成可执行命令"
SUMMARY_NO_COMMAND == <<"U+672A", "U+751F", "U+6210", "U+53EF", "U+6267", "U+884C", "U+547D",
    "U+4EE4">>

\* agents.py:324  "用户取消交互"
SUMMARY_INTERACTION_CANCELLED == <<"U+7528", "U+6237", "U+53D6", "U+6D88", "U+4EA4", "U+4E92">>

\* agents.py:367  "多次命令无效，已结束此次任务"
SUMMARY_INVALID_COMMANDS == <<"U+591A", "U+6B21", "U+547D", "U+4EE4", "U+65E0", "U+6548",
    "U+FF0C", "U+5DF2", "U+7ED3", "U+675F", "U+6B64", "U+6B21", "U+4EFB", "U+52A1">>

\* keywords of _is_final_summary (agents.py:506): "完成", "完结", "finished", "done", "总结", "summary"
final_summary_keywords == {
    <<"U+5B8C","U+6210">>,
    <<"U+5B8C","U+7ED3">>,
    <<"f","i","n","i","s","h","e","d">>,
    <<"d","o","n","e">>,
    <<"U+603B","U+7ED3">>,
    <<"s","u","m","m","a","r","y">>}

\* U+0060 is the backtick.  The opening of the fenced block in json_pattern (agents.py:431)
FENCE_OPEN == <<"U+0060", "U+0060", "U+0060", "j", "s", "o", "n">>

\* the closing of the fenced block in json_pattern
FENCE_CLOSE == <<"U+0060", "U+0060", "U+0060">>

\* str(e) of the AttributeError that command.strip() raises for an int
\* (tools.py:578, caught at agents.py:394-396)
ERROR_INT_STRIP == <<"'", "i", "n", "t", "'", " ", "o", "b", "j", "e", "c", "t", " ", "h", "a", "s", " ", "n",
    "o", " ", "a", "t", "t", "r", "i", "b", "u", "t", "e", " ", "'", "s", "t", "r", "i", "p",
    "'">>
\* The replies the LLM of the model can give: what BaseLLM.generate returns
\* (models.py:23-31), each a str written character by character.
REPLY ==
    [
     \* "{\"command\":\"ls\"}"
     LS |-> <<"{", "\"", "c", "o", "m", "m", "a", "n", "d", "\"", ":", "\"", "l", "s", "\"", "}">>,
     \* "{\"thought\":\"t\",\"command\":\"pwd\"}"
     THOUGHT_PWD |-> <<"{", "\"", "t", "h", "o", "u", "g", "h", "t", "\"", ":", "\"", "t", "\"",
         ",", "\"", "c", "o", "m", "m", "a", "n", "d", "\"", ":", "\"", "p", "w", "d", "\"", "}">>,
     \* "{\"command\":\"export FOO=bar\"}"
     EXPORT |-> <<"{", "\"", "c", "o", "m", "m", "a", "n", "d", "\"", ":", "\"", "e", "x", "p",
         "o", "r", "t", " ", "F", "O", "O", "=", "b", "a", "r", "\"", "}">>,
     \* "{\"command\":\"echo $FOO\"}"
     ECHO |-> <<"{", "\"", "c", "o", "m", "m", "a", "n", "d", "\"", ":", "\"", "e", "c", "h",
         "o", " ", "$", "F", "O", "O", "\"", "}">>,
     \* "{\"command\":\"cd /tmp\"}"
     CD |-> <<"{", "\"", "c", "o", "m", "m", "a", "n", "d", "\"", ":", "\"", "c", "d", " ", "/",
         "t", "m", "p", "\"", "}">>,
     \* "{\"command\":\"rm -rf /\"}"
     RM_ROOT |-> <<"{", "\"", "c", "o", "m", "m", "a", "n", "d", "\"", ":", "\"", "r", "m", " ",
         "-", "r", "f", " ", "/", "\"", "}">>,
     \* "{\"command\":\"sudo ls\"}"
     SUDO |-> <<"{", "\"", "c", "o", "m", "m", "a", "n", "d", "\"", ":", "\"", "s", "u", "d",
         "o", " ", "l", "s", "\"", "}">>,
     \* "{\"command\":\"rm -rf x\"}"
     RM_RF |-> <<"{", "\"", "c", "o", "m", "m", "a", "n", "d", "\"", ":", "\"", "r", "m", " ",
         "-", "r", "f", " ", "x", "\"", "}">>,
     \* "{\"command\":\"ls; rm x\"}"
     INJECT |-> <<"{", "\"", "c", "o", "m", "m", "a", "n", "d", "\"", ":", "\"", "l", "s", ";",
         " ", "r", "m", " ", "x", "\"", "}">>,
     \* "{\"command\":\"\"}"
     EMPTY_COMMAND |-> <<"{", "\"", "c", "o", "m", "m", "a", "n", "d", "\"", ":", "\"", "\"",
         "}">>,
     \* "{\"status\":\"success\",\"summary\":\"ok\"}"
     SUCCESS |-> <<"{", "\"", "s", "t", "a", "t", "u", "s", "\"", ":", "\"", "s", "u", "c", "c",
         "e", "s", "s", "\"", ",", "\"", "s", "u", "m", "m", "a", "r", "y", "\"", ":", "\"", "o",
         "k", "\"", "}">>,
     \* "{\"status\":\"failed\",\"summary\":\"blocked\"}"
     FAILED |-> <<"{", "\"", "s", "t", "a", "t", "u", "s", "\"", ":", "\"", "f", "a", "i", "l",
         "e", "d", "\"", ",", "\"", "s", "u", "m", "m", "a", "r", "y", "\"", ":", "\"", "b", "l",
         "o", "c", "k", "e", "d", "\"", "}">>,
     \* "{\"status\":\"interaction\",\"message\":\"dir?\",\"options\":[{\"text\":\"/tmp\"},{\"text\":\"/var\"}]}"
     ASK_OPTIONS |-> <<"{", "\"", "s", "t", "a", "t", "u", "s", "\"", ":", "\"", "i", "n", "t",
         "e", "r", "a", "c", "t", "i", "o", "n", "\"", ",", "\"", "m", "e", "s", "s", "a", "g", "e",
         "\"", ":", "\"", "d", "i", "r", "?", "\"", ",", "\"", "o", "p", "t", "i", "o", "n", "s",
         "\"", ":", "[", "{", "\"", "t", "e", "x", "t", "\"", ":", "\"", "/", "t", "m", "p", "\"",
         "}", ",", "{", "\"", "t", "e", "x", "t", "\"", ":", "\"", "/", "v", "a", "r", "\"", "}",
         "]", "}">>,
     \* "{\"status\":\"interaction\",\"message\":\"dir?\"}"
     ASK_FREE |-> <<"{", "\"", "s", "t", "a", "t", "u", "s", "\"", ":", "\"", "i", "n", "t",
         "e", "r", "a", "c", "t", "i", "o", "n", "\"", ",", "\"", "m", "e", "s", "s", "a", "g", "e",
         "\"", ":", "\"", "d", "i", "r", "?", "\"", "}">>,
     \* "<fence>json\n{\"command\":\"ls\"}\n<fence>"
     FENCED_LS |-> <<"U+0060", "U+0060", "U+0060", "j", "s", "o", "n", "\n", "{", "\"", "c",
         "o", "m", "m", "a", "n", "d", "\"", ":", "\"", "l", "s", "\"", "}", "\n", "U+0060",
         "U+0060", "U+0060">>,
     \* "hmm"
     PROSE |-> <<"h", "m", "m">>,
     \* "all done"
     DONE |-> <<"a", "l", "l", " ", "d", "o", "n", "e">>,
     \* ""
     EMPTY |-> <<>>,
     \* " "
     BLANK |-> <<" ">>,
     \* "{\"command\":5}"
     COMMAND_NUMBER |-> <<"{", "\"", "c", "o", "m", "m", "a", "n", "d", "\"", ":", "5", "}">>,
     \* "{\"status\":\"success\"}"
     SUCCESS_BARE |-> <<"{", "\"", "s", "t", "a", "t", "u", "s", "\"", ":", "\"", "s", "u", "c",
         "c", "e", "s", "s", "\"", "}">>,
     \* "{\"thought\":\"done\",\"command\":\"ls\"}"
     DONE_LS |-> <<"{", "\"", "t", "h", "o", "u", "g", "h", "t", "\"", ":", "\"", "d", "o", "n",
         "e", "\"", ",", "\"", "c", "o", "m", "m", "a", "n", "d", "\"", ":", "\"", "l", "s",
         "\"", "}">>,
     \* "{\"command\":\"ls\",\"status\":\"running\"}"
     COMMAND_STATUS |-> <<"{", "\"", "c", "o", "m", "m", "a", "n", "d", "\"", ":", "\"", "l",
         "s", "\"", ",", "\"", "s", "t", "a", "t", "u", "s", "\"", ":", "\"", "r", "u", "n", "n",
         "i", "n", "g", "\"", "}">>,
     \* "<fence>json\n{}\n<fence>done"
     FENCED_EMPTY_DONE |-> <<"U+0060", "U+0060", "U+0060", "j", "s", "o", "n", "\n", "{", "}",
         "\n", "U+0060", "U+0060", "U+0060", "d", "o", "n", "e">>,
     \* "<fence>json\n{\"command\":\"pwd\"}\n<fence>\n{\"command\":\"ls\"}"
     FENCED_PWD_BARE_LS |-> <<"U+0060", "U+0060", "U+0060", "j", "s", "o", "n", "\n", "{", "\"",
         "c", "o", "m", "m", "a", "n", "d", "\"", ":", "\"", "p", "w", "d", "\"", "}", "\n",
         "U+0060", "U+0060", "U+0060", "\n", "{", "\"", "c", "o", "m", "m", "a", "n", "d", "\"",
         ":", "\"", "l", "s", "\"", "}">>,
     \* "{\"command\":\"ls\"}\n<fence>json\n{\"command\":\"pwd\"}\n<fence>"
     BARE_LS_FENCED_PWD |-> <<"{", "\"", "c", "o", "m", "m", "a", "n", "d", "\"", ":", "\"",
         "l", "s", "\"", "}", "\n", "U+0060", "U+0060", "U+0060", "j", "s", "o", "n", "\n", "{",
         "\"", "c", "o", "m", "m", "a", "n", "d", "\"", ":", "\"", "p", "w", "d", "\"", "}",
         "\n", "U+0060", "U+0060", "U+0060">>,
     \* "{\"command\":\"ls\"}\n<fence>json\n{oops}\n<fence>"
     BARE_LS_FENCED_BAD |-> <<"{", "\"", "c", "o", "m", "m", "a", "n", "d", "\"", ":", "\"",
         "l", "s", "\"", "}", "\n", "U+0060", "U+0060", "U+0060", "j", "s", "o", "n", "\n", "{",
         "o", "o", "p", "s", "}", "\n", "U+0060", "U+0060", "U+0060">>,
     \* "use {x} then {\"command\":\"ls\"}"
     BRACES_THEN_LS |-> <<"u", "s", "e", " ", "{", "x", "}", " ", "t", "h", "e", "n", " ", "{",
         "\"", "c", "o", "m", "m", "a", "n", "d", "\"", ":", "\"", "l", "s", "\"", "}">>,
     \* "ok {\"command\":\"ls\"} bye"
     PADDED_LS |-> <<"o", "k", " ", "{", "\"", "c", "o", "m", "m", "a", "n", "d", "\"", ":",
         "\"", "l", "s", "\"", "}", " ", "b", "y", "e">>,
     \* "{\"a\":\"b\"} then {\"command\":\"ls\"}"
     OTHER_THEN_LS |-> <<"{", "\"", "a", "\"", ":", "\"", "b", "\"", "}", " ", "t", "h", "e",
         "n", " ", "{", "\"", "c", "o", "m", "m", "a", "n", "d", "\"", ":", "\"", "l", "s",
         "\"", "}">>,
     \* "{\"command\":\"cd\"}"
     CD_BARE |-> <<"{", "\"", "c", "o", "m", "m", "a", "n", "d", "\"", ":", "\"",
         "c", "d", "\"", "}">>,
     \* "{\"command\":\"cd /tmp #note\"}"
     CD_NOTE |-> <<"{", "\"", "c", "o", "m", "m", "a", "n", "d", "\"", ":", "\"",
         "c", "d", " ", "/", "t", "m", "p", " ", "#", "n", "o", "t", "e", "\"",
         "}">>,
     \* "{\"command\":\"cd /nowhere\"}"
     CD_NOWHERE |-> <<"{", "\"", "c", "o", "m", "m", "a", "n", "d", "\"", ":", "\"",
         "c", "d", " ", "/", "n", "o", "w", "h", "e", "r", "e", "\"", "}">>
    ]

(* json.loads on every substring of a reply of the model that begins with { and
   ends with } and is a JSON document: the decoded object as a record of the
   keys present and of the values the code reads (EMPTY_OBJECT gives the
   absent ones).  An element of options is the dict or str it is, with the
   text that agents.py:290-300 takes from it (opt.get("text", "") or opt).  Any
   other text raises json.JSONDecodeError. *)
JSON_DOCUMENTS ==
    \* {"command":"ls"}
    (<<"{","\"","c","o","m","m","a","n","d","\"",":","\"","l","s","\"","}">> :>
      ([keys |-> {"command"},
       command |-> <<"l","s">>] @@ EMPTY_OBJECT)) @@
    \* {"thought":"t","command":"pwd"}
    (<<"{","\"","t","h","o","u","g","h","t","\"",":","\"","t","\"",",","\"","c","o","m","m","a","n","d","\"",":","\"","p","w","d","\"","}">> :>
      ([keys |-> {"thought", "command"},
       command |-> <<"p","w","d">>,
       thought |-> <<"t">>] @@ EMPTY_OBJECT)) @@
    \* {"command":"export FOO=bar"}
    (<<"{","\"","c","o","m","m","a","n","d","\"",":","\"","e","x","p","o","r","t"," ","F","O","O","=","b","a","r","\"","}">> :>
      ([keys |-> {"command"},
       command |-> <<"e","x","p","o","r","t"," ","F","O","O","=","b","a","r">>] @@ EMPTY_OBJECT)) @@
    \* {"command":"echo $FOO"}
    (<<"{","\"","c","o","m","m","a","n","d","\"",":","\"","e","c","h","o"," ","$","F","O","O","\"","}">> :>
      ([keys |-> {"command"},
       command |-> <<"e","c","h","o"," ","$","F","O","O">>] @@ EMPTY_OBJECT)) @@
    \* {"command":"cd /tmp"}
    (<<"{","\"","c","o","m","m","a","n","d","\"",":","\"","c","d"," ","/","t","m","p","\"","}">> :>
      ([keys |-> {"command"},
       command |-> <<"c","d"," ","/","t","m","p">>] @@ EMPTY_OBJECT)) @@
    \* {"command":"rm -rf /"}
    (<<"{","\"","c","o","m","m","a","n","d","\"",":","\"","r","m"," ","-","r","f"," ","/","\"","}">> :>
      ([keys |-> {"command"},
       command |-> <<"r","m"," ","-","r","f"," ","/">>] @@ EMPTY_OBJECT)) @@
    \* {"command":"sudo ls"}
    (<<"{","\"","c","o","m","m","a","n","d","\"",":","\"","s","u","d","o"," ","l","s","\"","}">> :>
      ([keys |-> {"command"},
       command |-> <<"s","u","d","o"," ","l","s">>] @@ EMPTY_OBJECT)) @@
    \* {"command":"rm -rf x"}
    (<<"{","\"","c","o","m","m","a","n","d","\"",":","\"","r","m"," ","-","r","f"," ","x","\"","}">> :>
      ([keys |-> {"command"},
       command |-> <<"r","m"," ","-","r","f"," ","x">>] @@ EMPTY_OBJECT)) @@
    \* {"command":"ls; rm x"}
    (<<"{","\"","c","o","m","m","a","n","d","\"",":","\"","l","s",";"," ","r","m"," ","x","\"","}">> :>
      ([keys |-> {"command"},
       command |-> <<"l","s",";"," ","r","m"," ","x">>] @@ EMPTY_OBJECT)) @@
    \* {"command":""}
    (<<"{","\"","c","o","m","m","a","n","d","\"",":","\"","\"","}">> :>
      ([keys |-> {"command"},
       command |-> <<>>] @@ EMPTY_OBJECT)) @@
    \* {"status":"success","summary":"ok"}
    (<<"{","\"","s","t","a","t","u","s","\"",":","\"","s","u","c","c","e","s","s","\"",",","\"","s","u","m","m","a","r","y","\"",":","\"","o","k","\"","}">> :>
      ([keys |-> {"status", "summary"},
       status |-> <<"s","u","c","c","e","s","s">>,
       summary |-> <<"o","k">>] @@ EMPTY_OBJECT)) @@
    \* {"status":"failed","summary":"blocked"}
    (<<"{","\"","s","t","a","t","u","s","\"",":","\"","f","a","i","l","e","d","\"",",","\"","s","u","m","m","a","r","y","\"",":","\"","b","l","o","c","k","e","d","\"","}">> :>
      ([keys |-> {"status", "summary"},
       status |-> <<"f","a","i","l","e","d">>,
       summary |-> <<"b","l","o","c","k","e","d">>] @@ EMPTY_OBJECT)) @@
    \* {"status":"interaction","message":"dir?","options":[{"text":"/tmp"},{"text":"/var"}]}
    (<<"{","\"","s","t","a","t","u","s","\"",":","\"","i","n","t","e","r","a","c","t","i","o","n","\"",",","\"","m","e","s","s","a","g","e","\"",":","\"","d","i","r","?","\"",",","\"","o","p","t","i","o","n","s","\"",":","[","{","\"","t","e","x","t","\"",":","\"","/","t","m","p","\"","}",",","{","\"","t","e","x","t","\"",":","\"","/","v","a","r","\"","}","]","}">> :>
      ([keys |-> {"status", "message", "options"},
       status |-> <<"i","n","t","e","r","a","c","t","i","o","n">>,
       message |-> <<"d","i","r","?">>,
       options |-> <<[type |-> "dict", text |-> <<"/","t","m","p">>],
          [type |-> "dict", text |-> <<"/","v","a","r">>]>>] @@ EMPTY_OBJECT)) @@
    \* {"text":"/tmp"}
    (<<"{","\"","t","e","x","t","\"",":","\"","/","t","m","p","\"","}">> :>
      ([keys |-> {"text"}] @@ EMPTY_OBJECT)) @@
    \* {"text":"/var"}
    (<<"{","\"","t","e","x","t","\"",":","\"","/","v","a","r","\"","}">> :>
      ([keys |-> {"text"}] @@ EMPTY_OBJECT)) @@
    \* {"status":"interaction","message":"dir?"}
    (<<"{","\"","s","t","a","t","u","s","\"",":","\"","i","n","t","e","r","a","c","t","i","o","n","\"",",","\"","m","e","s","s","a","g","e","\"",":","\"","d","i","r","?","\"","}">> :>
      ([keys |-> {"status", "message"},
       status |-> <<"i","n","t","e","r","a","c","t","i","o","n">>,
       message |-> <<"d","i","r","?">>] @@ EMPTY_OBJECT)) @@
    \* {"command":5}
    (<<"{","\"","c","o","m","m","a","n","d","\"",":","5","}">> :>
      ([keys |-> {"command"},
       command |-> <<"5">>,
       command_is_str |-> FALSE] @@ EMPTY_OBJECT)) @@
    \* {"status":"success"}
    (<<"{","\"","s","t","a","t","u","s","\"",":","\"","s","u","c","c","e","s","s","\"","}">> :>
      ([keys |-> {"status"},
       status |-> <<"s","u","c","c","e","s","s">>] @@ EMPTY_OBJECT)) @@
    \* {"thought":"done","command":"ls"}
    (<<"{","\"","t","h","o","u","g","h","t","\"",":","\"","d","o","n","e","\"",",","\"","c","o","m","m","a","n","d","\"",":","\"","l","s","\"","}">> :>
      ([keys |-> {"thought", "command"},
       command |-> <<"l","s">>,
       thought |-> <<"d","o","n","e">>] @@ EMPTY_OBJECT)) @@
    \* {"command":"ls","status":"running"}
    (<<"{","\"","c","o","m","m","a","n","d","\"",":","\"","l","s","\"",",","\"","s","t","a","t","u","s","\"",":","\"","r","u","n","n","i","n","g","\"","}">> :>
      ([keys |-> {"command", "status"},
       command |-> <<"l","s">>,
       status |-> <<"r","u","n","n","i","n","g">>] @@ EMPTY_OBJECT)) @@
    \* {"command":"pwd"}
    (<<"{","\"","c","o","m","m","a","n","d","\"",":","\"","p","w","d","\"","}">> :>
      ([keys |-> {"command"},
       command |-> <<"p","w","d">>] @@ EMPTY_OBJECT)) @@
    \* {"command":"cd"}
    (<<"{","\"","c","o","m","m","a","n","d","\"",":","\"","c","d","\"","}">> :>
      ([keys |-> {"command"},
       command |-> <<"c","d">>] @@ EMPTY_OBJECT)) @@
    \* {"command":"cd /tmp #note"}
    (<<"{","\"","c","o","m","m","a","n","d","\"",":","\"","c","d"," ","/","t","m","p"," ","#","n","o","t","e","\"","}">> :>
      ([keys |-> {"command"},
       command |-> <<"c","d"," ","/","t","m","p"," ","#","n","o","t","e">>] @@ EMPTY_OBJECT)) @@
    \* {"command":"cd /nowhere"}
    (<<"{","\"","c","o","m","m","a","n","d","\"",":","\"","c","d"," ","/","n","o","w","h","e","r","e","\"","}">> :>
      ([keys |-> {"command"},
       command |-> <<"c","d"," ","/","n","o","w","h","e","r","e">>] @@ EMPTY_OBJECT)) @@
    \* {"a":"b"}
    (<<"{","\"","a","\"",":","\"","b","\"","}">> :>
      ([keys |-> {"a"}] @@ EMPTY_OBJECT)) @@
    \* {}
    (<<"{","}">> :>
      EMPTY_OBJECT)

\* json.loads(text): ok is FALSE when it raises json.JSONDecodeError.
json_loads(text) ==
    IF text \in DOMAIN JSON_DOCUMENTS
    THEN [ok |-> TRUE, data |-> JSON_DOCUMENTS[text]]
    ELSE [ok |-> FALSE, data |-> EMPTY_OBJECT]

STATUS_INTERACTION == <<"i","n","t","e","r","a","c","t","i","o","n">>
STATUS_SUCCESS     == <<"s","u","c","c","e","s","s">>

\* The first position at or after p that holds no whitespace, Len(s) + 1 if none.
NextNonSpace(s, p) ==
    SetMin({q \in p..(Len(s) + 1) : q = Len(s) + 1 \/ ~IsSpace(s[q])})

\* json_pattern = <fence>json\s*(\{.*?\})\s*<fence> with re.DOTALL: a match that
\* begins at i has its { at the first non-blank position after the opening fence and its }
\* at e, the first } after which only whitespace precedes the closing fence.
FenceCloses(s, e) == s[e] = "}" /\ LitAt(s, NextNonSpace(s, e + 1), FENCE_CLOSE)

FenceBrace(s, i) == NextNonSpace(s, i + Len(FENCE_OPEN))

FenceMatchesAt(s, i) ==
    /\ LitAt(s, i, FENCE_OPEN)
    /\ FenceBrace(s, i) <= Len(s)
    /\ s[FenceBrace(s, i)] = "{"
    /\ \E e \in (FenceBrace(s, i) + 1)..Len(s) : FenceCloses(s, e)

\* re.findall(json_pattern, response, re.DOTALL): found is FALSE for an empty
\* list, text is matches[0], the group of the leftmost match.
findall_json_pattern(response) ==
    LET at == {i \in 1..Len(response) : FenceMatchesAt(response, i)}
    IN  IF at = {} THEN [found |-> FALSE, text |-> <<>>]
        ELSE LET i == SetMin(at)
                 j == FenceBrace(response, i)
                 e == SetMin({x \in (j + 1)..Len(response) : FenceCloses(response, x)})
             IN  [found |-> TRUE, text |-> SubSeq(response, j, e)]

(* The loop of agents.py:457-494, which reads response from start_idx on with
   three variables.  What they hold when the loop reaches position i:
   escape_next is set when the backslashes that end just before i are odd in
   number (the first sets it, the next one is skipped and clears it);
   in_string has flipped once for every quote before i that was not skipped;
   brace_count is the { seen outside strings less the } seen outside strings. *)
escape_next(response, start_idx, i) ==
    LET run == SetMin({k \in start_idx..i :
                         \A q \in k..(i - 1) : response[q] = "\\"})
    IN  (i - run) % 2 = 1

Quotes(response, start_idx, i) ==
    {k \in start_idx..(i - 1) : response[k] = "\"" /\ ~escape_next(response, start_idx, k)}

in_string(response, start_idx, i) ==
    Cardinality(Quotes(response, start_idx, i)) % 2 = 1

Braces(response, start_idx, i, brace) ==
    {k \in start_idx..i : /\ response[k] = brace
                          /\ ~escape_next(response, start_idx, k)
                          /\ ~in_string(response, start_idx, k)}

brace_count(response, start_idx, i) ==
    Cardinality(Braces(response, start_idx, i, "{")) -
    Cardinality(Braces(response, start_idx, i, "}"))

\* The position of the } at which brace_count comes back to 0 (agents.py:475),
\* or 0 if the text ends first.
scan_object_end(response, start_idx) ==
    LET ends == {i \in start_idx..Len(response) :
                    /\ response[i] = "}"
                    /\ ~escape_next(response, start_idx, i)
                    /\ ~in_string(response, start_idx, i)
                    /\ brace_count(response, start_idx, i) = 0}
    IN  IF ends = {} THEN 0 ELSE SetMin(ends)

\* The dict returned for an interaction request, agents.py:439-444 and 484-489.
interaction_request(data, response) ==
    [EMPTY_OBJECT EXCEPT
        !.keys               = {"interaction", "message", "options", "allow_custom_input"},
        !.interaction        = TRUE,
        !.message            = IF "message" \in data.keys THEN data.message ELSE response,
        !.options            = data.options,
        !.allow_custom_input = data.allow_custom_input]

\* What _parse_response returns: is_none for None, else the dict.
parsed(data) == [is_none |-> FALSE, info |-> data]
parsed_none  == [is_none |-> TRUE, info |-> EMPTY_OBJECT]

\* The two extraction steps in the other order: the bare scan first, the fenced
\* block only when the scan finds no intent.
parse_response_bare_first(response) ==
    LET matches   == findall_json_pattern(response)
        fenced    == json_loads(matches.text)
        start_idx == find(response, <<"{">>)
        end_idx   == IF start_idx = 0 THEN 0
                     ELSE scan_object_end(response, start_idx)
        bare      == json_loads(SubSeq(response, start_idx, end_idx))
    IN  IF /\ start_idx # 0 /\ end_idx # 0 /\ bare.ok
           /\ \/ bare.data.status = STATUS_INTERACTION
              \/ "command" \in bare.data.keys
              \/ "status" \in bare.data.keys
        THEN IF bare.data.status = STATUS_INTERACTION
             THEN parsed(interaction_request(bare.data, response))
             ELSE parsed(bare.data)
        ELSE IF matches.found /\ fenced.ok
        THEN IF fenced.data.status = STATUS_INTERACTION
             THEN parsed(interaction_request(fenced.data, response))
             ELSE parsed(fenced.data)
        ELSE parsed_none

parse_response(response) ==
    LET matches   == findall_json_pattern(response)
        fenced    == json_loads(matches.text)
        start_idx == find(response, <<"{">>)
        end_idx   == IF start_idx = 0 THEN 0
                     ELSE scan_object_end(response, start_idx)
        bare      == json_loads(SubSeq(response, start_idx, end_idx))
    IN  IF matches.found /\ fenced.ok
        THEN IF fenced.data.status = STATUS_INTERACTION
             THEN parsed(interaction_request(fenced.data, response))
             ELSE parsed(fenced.data)
        ELSE IF start_idx # 0 /\ end_idx # 0 /\ bare.ok
        THEN IF bare.data.status = STATUS_INTERACTION
             THEN parsed(interaction_request(bare.data, response))
             ELSE IF "command" \in bare.data.keys \/ "status" \in bare.data.keys
             THEN parsed(bare.data)
             ELSE parsed_none
        ELSE parsed_none

\* CommandAgent._is_final_summary, agents.py:505-508.
is_final_summary(response) ==
    \E kw \in final_summary_keywords : Contains(lower(response), kw)


-----------------------------------------------------------------------------
(* The inputs of the model and its bounds.                                  *)

\* The largest max_steps and max_idle_steps an agent is built with, and the
\* number of LLM calls made with one Conversation before it is emptied.
MaxSteps     == 2
MaxIdleSteps == 2
MaxCalls     == 3

ReplyUniverse ==
    {REPLY.LS, REPLY.THOUGHT_PWD, REPLY.EXPORT, REPLY.ECHO, REPLY.CD, REPLY.RM_ROOT,
     REPLY.SUDO, REPLY.RM_RF, REPLY.INJECT, REPLY.EMPTY_COMMAND, REPLY.SUCCESS,
     REPLY.FAILED, REPLY.ASK_OPTIONS, REPLY.ASK_FREE, REPLY.FENCED_LS, REPLY.PROSE,
     REPLY.DONE, REPLY.EMPTY, REPLY.BLANK, REPLY.COMMAND_NUMBER, REPLY.SUCCESS_BARE,
     REPLY.DONE_LS, REPLY.COMMAND_STATUS, REPLY.FENCED_EMPTY_DONE,
     REPLY.FENCED_PWD_BARE_LS, REPLY.BARE_LS_FENCED_PWD, REPLY.BARE_LS_FENCED_BAD,
     REPLY.BRACES_THEN_LS, REPLY.PADDED_LS, REPLY.OTHER_THEN_LS,
     REPLY.CD_BARE, REPLY.CD_NOTE, REPLY.CD_NOWHERE}

\* What the world does to a child process.
Faults == {"none", "fail", "timeout"}

\* What the world outside the agent does in one behaviour of the model: the
\* texts generate can return, whether it can raise or return None, and what can
\* happen to a child process that runs a command (see subprocess_run).
LLM(replies, raises, none, faults) ==
    [replies |-> replies, raises |-> raises, none |-> none, faults |-> faults]

LLMs ==
    {LLM({REPLY.EMPTY, REPLY.BLANK, REPLY.LS}, TRUE, TRUE, {"none"}),
     LLM({REPLY.RM_ROOT, REPLY.PROSE, REPLY.LS}, FALSE, FALSE, {"none"}),
     LLM({REPLY.SUDO, REPLY.INJECT, REPLY.EMPTY_COMMAND}, FALSE, FALSE, {"none"}),
     LLM({REPLY.RM_RF, REPLY.RM_ROOT, REPLY.FAILED}, FALSE, FALSE, {"none"}),
     LLM({REPLY.EXPORT, REPLY.ECHO}, FALSE, FALSE, {"none"}),
     LLM({REPLY.CD, REPLY.THOUGHT_PWD}, FALSE, FALSE, {"none"}),
     LLM({REPLY.LS}, FALSE, FALSE, Faults),
     LLM({REPLY.ASK_OPTIONS, REPLY.SUCCESS, REPLY.EMPTY}, TRUE, FALSE, {"none"}),
     LLM({REPLY.ASK_FREE, REPLY.FENCED_LS, REPLY.DONE}, FALSE, FALSE, {"none"}),
     LLM({REPLY.LS, REPLY.COMMAND_NUMBER}, FALSE, FALSE, {"none"}),
     LLM({REPLY.DONE_LS, REPLY.SUCCESS_BARE}, FALSE, FALSE, {"none"}),
     LLM({REPLY.COMMAND_STATUS, REPLY.FENCED_EMPTY_DONE}, FALSE, FALSE, {"none"})}

\* Backends whose replies hold a JSON object next to a fenced block, to prose
\* or to another object; the agent is run on them in ParserSpec.
ParserLLMs ==
    {LLM({REPLY.FENCED_PWD_BARE_LS, REPLY.BARE_LS_FENCED_PWD}, FALSE, FALSE, {"none"}),
     LLM({REPLY.BARE_LS_FENCED_BAD, REPLY.FENCED_LS}, FALSE, FALSE, {"none"}),
     LLM({REPLY.BRACES_THEN_LS, REPLY.LS}, FALSE, FALSE, {"none"}),
     LLM({REPLY.PADDED_LS, REPLY.OTHER_THEN_LS}, FALSE, FALSE, {"none"})}

\* Backends that change and print the working directory, and what can happen to
\* the child that runs the command; the agent is run on them in FallbackSpec.
FallbackLLMs ==
    {LLM({REPLY.CD, REPLY.CD_BARE, REPLY.THOUGHT_PWD}, FALSE, FALSE, {"none", "fail"}),
     LLM({REPLY.CD_NOTE, REPLY.CD_NOWHERE, REPLY.THOUGHT_PWD}, FALSE, FALSE, {"none"}),
     LLM({REPLY.CD, REPLY.LS, REPLY.THOUGHT_PWD}, FALSE, FALSE, {"none", "timeout"})}

\* str(llm_error) of an exception raised by generate.
LLM_ERROR == <<"b","o","o","m">>

\* The task a user gives.
TASK == <<"g","o">>

\* A function as the table of its values: TLC keeps [x \in S |-> e] as a rule
\* and evaluates e at every application, and merging makes it a table.
Memo(f) == f @@ <<>>

\* _parse_response on the replies of the model, computed once.
PARSED == Memo([r \in ReplyUniverse |-> parse_response(r)])

\* Every command a reply of the model carries.
CommandUniverse == {PARSED[r].info.command : r \in ReplyUniverse}

\* len(command) > 10000, tools.py:586
MAX_COMMAND_LENGTH == 10000

\* A command of one character more than validate_command lets through.  No
\* reply of the model carries it: validate_command is applied to it directly,
\* with Config.SAFE_MODE off, when the Safety Oracle looks at no command.
LONG_COMMAND == [i \in 1..(MAX_COMMAND_LENGTH + 1) |-> "a"]


\* Config.is_dangerous_command on the commands of the model, computed once.
DANGEROUS ==
    Memo([k \in (BOOLEAN \X CommandUniverse) \cup {<<FALSE, LONG_COMMAND>>} |->
            is_dangerous_command(k[1], k[2])])

\* Config.is_dangerous_command(command) as the tool calls it.
Config_is_dangerous_command(Config_SAFE_MODE, command) == DANGEROUS[<<Config_SAFE_MODE, command>>]

-----------------------------------------------------------------------------
(* TerminalTool.validate_command, tools.py:576-608.                          *)

\* tools.py:579  "命令不能为空"
MSG_EMPTY == <<"U+547D", "U+4EE4", "U+4E0D", "U+80FD", "U+4E3A", "U+7A7A">>

\* tools.py:583  f"危险命令已被阻止: {command}"
MSG_DANGEROUS_PREFIX == <<"U+5371", "U+9669", "U+547D", "U+4EE4", "U+5DF2", "U+88AB", "U+963B",
    "U+6B62", ":", " ">>

\* tools.py:587  "命令过长，可能存在安全风险"
MSG_TOO_LONG == <<"U+547D", "U+4EE4", "U+8FC7", "U+957F", "U+FF0C", "U+53EF", "U+80FD",
    "U+5B58", "U+5728", "U+5B89", "U+5168", "U+98CE", "U+9669">>

\* tools.py:606  f"检测到可能的命令注入: {command}"
MSG_INJECTION_PREFIX == <<"U+68C0", "U+6D4B", "U+5230", "U+53EF", "U+80FD", "U+7684", "U+547D",
    "U+4EE4", "U+6CE8", "U+5165", ":", " ">>

\* tools.py:608
MSG_OK == <<"O", "K">>

\* tools.py:411
ERR_DANGEROUS_BLOCKED == <<"D", "a", "n", "g", "e", "r", "o", "u", "s", " ", "c", "o", "m", "m",
    "a", "n", "d", " ", "b", "l", "o", "c", "k", "e", "d">>

\* tools.py:427
ERR_CANCELLED_SUDO == <<"U", "s", "e", "r", " ", "c", "a", "n", "c", "e", "l", "l", "e", "d",
    " ", "s", "u", "d", "o", " ", "c", "o", "m", "m", "a", "n", "d">>

\* tools.py:437
ERR_CANCELLED_HIGH_RISK == <<"U", "s", "e", "r", " ", "c", "a", "n", "c", "e", "l", "l", "e",
    "d", " ", "h", "i", "g", "h", "-", "r", "i", "s", "k", " ", "c", "o", "m", "m", "a", "n",
    "d">>

\* tools.py:447
ERR_CANCELLED == <<"U", "s", "e", "r", " ", "c", "a", "n", "c", "e", "l", "l", "e", "d">>

\* tools.py:571
ERR_TIMEOUT == <<"T", "i", "m", "e", "o", "u", "t">>

\* dangerous_chars_combinations (tools.py:590-596): the separators, in order; each is paired with "rm".
dangerous_chars_combinations == <<<<";">>, <<"&","&">>, <<"|","|">>, <<"U+0060">>, <<"$","(">>>>


\* TerminalTool.__init__, tools.py:388-398: the tool's fields.
TerminalTool(safe_mode, use_persistent_shell, Config_SAFE_MODE) ==
    [safe_mode            |-> safe_mode \/ Config_SAFE_MODE,
     use_persistent_shell |-> use_persistent_shell]

\* The loop of tools.py:598-606: some separator occurs in the command, "rm"
\* occurs in it, and a piece after an occurrence of the separator begins with
\* "rm" once stripped and lowered.
InjectionSuspected(command) ==
    \E n \in 1..Len(dangerous_chars_combinations) :
        LET sep   == dangerous_chars_combinations[n]
            parts == split(command, sep)
        IN  /\ Contains(command, sep)
            /\ Contains(lower(command), <<"r","m">>)
            /\ \E p \in 2..Len(parts) : startswith(lower(strip(parts[p])), <<"r","m">>)

\* validate_command without the check of tools.py:582-583.
validate_command_without_oracle(self, Config_SAFE_MODE, command) ==
    IF command = <<>> \/ strip(command) = <<>>
    THEN [is_valid |-> FALSE, msg |-> MSG_EMPTY]
    ELSE IF Len(command) > MAX_COMMAND_LENGTH
    THEN [is_valid |-> FALSE, msg |-> MSG_TOO_LONG]
    ELSE IF InjectionSuspected(command) /\ self.safe_mode
    THEN [is_valid |-> FALSE, msg |-> MSG_INJECTION_PREFIX \o command]
    ELSE [is_valid |-> TRUE, msg |-> MSG_OK]

\* TerminalTool.validate_command, tools.py:576-608.
validate_command(self, Config_SAFE_MODE, command) ==
    IF command = <<>> \/ strip(command) = <<>>
    THEN [is_valid |-> FALSE, msg |-> MSG_EMPTY]
    ELSE IF self.safe_mode /\ Config_is_dangerous_command(Config_SAFE_MODE, command)
    THEN [is_valid |-> FALSE, msg |-> MSG_DANGEROUS_PREFIX \o command]
    ELSE IF Len(command) > MAX_COMMAND_LENGTH
    THEN [is_valid |-> FALSE, msg |-> MSG_TOO_LONG]
    ELSE IF InjectionSuspected(command) /\ self.safe_mode
    THEN [is_valid |-> FALSE, msg |-> MSG_INJECTION_PREFIX \o command]
    ELSE [is_valid |-> TRUE, msg |-> MSG_OK]

\* The tools the program builds: tools.py:388 has safe_mode=True by default and
\* agents.py:149 passes nothing.
Tools == {TerminalTool(TRUE, FALSE, sm) : sm \in BOOLEAN}

\* validate_command on the commands of the model, computed once.
VALIDATED ==
    Memo([k \in Tools \X BOOLEAN \X CommandUniverse |-> validate_command(k[1], k[2], k[3])])

\* validate_command on a command of 10001 characters.
VALIDATED_LONG == validate_command(TerminalTool(TRUE, FALSE, FALSE), FALSE, LONG_COMMAND)

\* self.validate_command(command) as execute and the agent call it.
self_validate_command(self, Config_SAFE_MODE, command) == VALIDATED[<<self, Config_SAFE_MODE, command>>]

-----------------------------------------------------------------------------
(* The operating system as the tool sees it: the process's working          *)
(* directory and environment, the directories that exist, and what          *)
(* /bin/sh -c does with the commands the model's LLM issues.                *)

DIR_HOME == <<"/","h","o","m","e">>
DIR_TMP  == <<"/","t","m","p">>
Directories == {DIR_HOME, DIR_TMP}

\* os.path.isdir
isdir(path) == path \in Directories

SH_AND    == <<" ","&","&"," ">>
SH_EXPORT == <<"e","x","p","o","r","t"," ">>
SH_ECHO   == <<"e","c","h","o"," ">>
SH_CD     == <<"c","d"," ">>
SH_PWD    == <<"p","w","d">>
SH_ERR    == <<"e","r","r">>

\* $HOME of the account that runs the program: where cd without an operand
\* goes.  (environ holds the variables the commands of the model set.)
HOME == DIR_HOME

\* A script without its comment: the shell drops a word that begins with # and
\* the rest of the line.
uncommented(script) ==
    IF find(script, <<" ","#">>) = 0 THEN script
    ELSE SubSeq(script, 1, find(script, <<" ","#">>) - 1)

\* One simple command run by the shell in the state st = [cwd, environ, out, rc].
ShSimple(cmd, st) ==
    LET c    == strip(cmd)
        rest(n) == SubSeq(c, n + 1, Len(c))
    IN  IF startswith(c, SH_EXPORT) /\ find(rest(7), <<"=">>) > 1
        THEN LET a  == rest(7)
                 eq == find(a, <<"=">>)
             IN  [st EXCEPT !.environ =
                     (SubSeq(a, 1, eq - 1) :> SubSeq(a, eq + 1, Len(a))) @@ st.environ]
        ELSE IF startswith(c, SH_ECHO)
        THEN LET a == rest(5)
                 v == IF a # <<>> /\ a[1] = "$"
                      THEN IF SubSeq(a, 2, Len(a)) \in DOMAIN st.environ
                           THEN st.environ[SubSeq(a, 2, Len(a))] ELSE <<>>
                      ELSE a
             IN  [st EXCEPT !.out = st.out \o v \o <<"\n">>]
        ELSE IF startswith(c, SH_CD)
        THEN IF isdir(rest(3)) THEN [st EXCEPT !.cwd = rest(3)]
                               ELSE [st EXCEPT !.rc = 1]
        ELSE IF c = <<"c","d">>
        THEN [st EXCEPT !.cwd = HOME]
        ELSE IF c = SH_PWD
        THEN [st EXCEPT !.out = st.out \o st.cwd \o <<"\n">>]
        ELSE st

\* A list "a && b && ..." run left to right until a command fails.
RECURSIVE ShList(_, _)
ShList(cmds, st) ==
    IF cmds = <<>> \/ st.rc # 0 THEN st
    ELSE ShList(Tail(cmds), ShSimple(Head(cmds), st))

\* subprocess.run(script, shell=True, capture_output=True, text=True, timeout=...)
\* in a child that starts with the parent's cwd and environment.  fault is what
\* the world does to the child: "none", "fail" (the command exits 1 and prints
\* to stderr) or "timeout" (subprocess.TimeoutExpired).  What the child does
\* to its own cwd and environment ends with the child.
subprocess_run(script, proc, fault) ==
    IF fault = "timeout"
    THEN [raised |-> TRUE, returncode |-> 1, stdout |-> <<>>, stderr |-> <<>>]
    ELSE IF fault = "fail"
    THEN [raised |-> FALSE, returncode |-> 1, stdout |-> <<>>, stderr |-> SH_ERR]
    ELSE LET st == ShList(split(uncommented(script), SH_AND),
                          [cwd |-> proc.cwd, environ |-> proc.environ, out |-> <<>>, rc |-> 0])
         IN  [raised |-> FALSE, returncode |-> st.rc, stdout |-> st.out,
              stderr |-> IF st.rc = 0 THEN <<>> ELSE SH_ERR]

-----------------------------------------------------------------------------
(* TerminalTool.execute, tools.py:400-574.                                  *)

RECURSIVE join(_, _)
\* sep.join(parts)
join(parts, sep) ==
    IF parts = <<>> THEN <<>>
    ELSE IF Len(parts) = 1 THEN parts[1]
    ELSE parts[1] \o sep \o join(Tail(parts), sep)

\* What the fallback path returns: the triple, the script it handed to
\* subprocess.run with the command in it, and the cwd of the process afterwards.
Ran(success, stdout, stderr, shell_cmd, cwd) ==
    [success |-> success, stdout |-> stdout, stderr |-> stderr,
     handed |-> <<shell_cmd>>, cwd |-> cwd]

\* tools.py:478-483
is_directory_change_cmd(command_lower) ==
    \/ startswith(command_lower, <<"c","d"," ">>)
    \/ startswith(command_lower, <<"p","u","s","h","d"," ">>)
    \/ command_lower = <<"p","o","p","d">>
    \/ startswith(command_lower, <<"p","o","p","d"," ">>)

\* tools.py:517-521
is_pure_dir_cmd(command_lower) ==
    /\ ~Contains(command_lower, <<"&","&">>)
    /\ ~Contains(command_lower, <<";">>)
    /\ ~Contains(command_lower, <<"|">>)

\* tools.py:504-528: a directory change that succeeded, lines being
\* stdout.split('\n').  chdir to the last line if it is a directory; the
\* stdout returned hides the line that pwd printed.
directory_changed(command_lower, shell_cmd, stdout, stderr, lines, proc) ==
    Ran(TRUE,
        IF is_pure_dir_cmd(command_lower)
        THEN IF startswith(command_lower, <<"c","d"," ">>) THEN <<>>
             ELSE IF Len(lines) > 1
                  THEN join(SubSeq(lines, 1, Len(lines) - 1), <<"\n">>) ELSE <<>>
        ELSE IF Len(lines) > 1
             THEN join(SubSeq(lines, 1, Len(lines) - 1), <<"\n">>) ELSE stdout,
        stderr, shell_cmd,
        IF lines[Len(lines)] # <<>> /\ isdir(lines[Len(lines)])
        THEN lines[Len(lines)] ELSE proc.cwd)

\* tools.py:487-528: command && pwd has run and completed.
directory_change_completed(command_lower, shell_cmd, success, stdout, stderr, proc) ==
    IF success
    THEN directory_changed(command_lower, shell_cmd, stdout, stderr,
                           split(stdout, <<"\n">>), proc)
    ELSE Ran(FALSE, stdout, stderr, shell_cmd, proc.cwd)

\* tools.py:543-557: a second child prints its cwd, which is the parent's, and
\* the parent changes to it if it is a directory other than its own.
cwd_rechecked(new_dir, returncode, proc) ==
    IF returncode = 0 /\ new_dir # <<>> /\ isdir(new_dir) /\ new_dir # proc.cwd
    THEN new_dir ELSE proc.cwd

\* tools.py:485-574 once subprocess.run has been called with shell_cmd:
\* completed is what it gave.
fallback_completed(command_lower, shell_cmd, completed, pwd_result, proc) ==
    IF completed.raised
    THEN Ran(FALSE, <<>>, ERR_TIMEOUT, shell_cmd, proc.cwd)
    ELSE IF is_directory_change_cmd(command_lower)
    THEN directory_change_completed(command_lower, shell_cmd, completed.returncode = 0,
                                    strip(completed.stdout), strip(completed.stderr), proc)
    ELSE Ran(completed.returncode = 0, strip(completed.stdout), strip(completed.stderr),
             shell_cmd,
             cwd_rechecked(strip(pwd_result.stdout), pwd_result.returncode, proc))

\* tools.py:487-497 and 531-537: the script, and the child that runs it.
fallback_run(command_lower, shell_cmd, proc, fault) ==
    fallback_completed(command_lower, shell_cmd, subprocess_run(shell_cmd, proc, fault),
                       subprocess_run(SH_PWD, proc, "none"), proc)

\* The fallback path, tools.py:475-574: one subprocess per call.
execute_fallback(command, proc, fault) ==
    fallback_run(lower(strip(command)),
                 IF is_directory_change_cmd(lower(strip(command)))
                 THEN command \o <<" ","&","&"," ","p","w","d">>
                 ELSE command,
                 proc, fault)

\* The states of the Python process that the agent reaches (proc): nothing in
\* the fallback path changes os.environ, and os.chdir is only called with a directory.
OSStates == {[cwd |-> d, environ |-> <<>>] : d \in Directories}

\* The fallback path on the commands of the model, computed once.
FALLBACK ==
    Memo([k \in CommandUniverse \X OSStates \X Faults |-> execute_fallback(k[1], k[2], k[3])])

\* What execute returns when it stops before running anything.
Refused(stderr, asked, proc) ==
    [success |-> FALSE, stdout |-> <<>>, stderr |-> stderr, asked |-> asked,
     handed |-> <<>>, cwd |-> proc.cwd]

\* What the user does at a prompt of ui.confirm: chooses yes, chooses no, or
\* presses Ctrl-C.
Answers == {"yes", "no", "interrupt"}

ConfirmKinds == {"sudo", "high-risk", "normal"}

\* UI.confirm(message, default), ui.py:170-180, through select_option with
\* prompt_toolkit present (ui.py:280-357): the value of the option chosen, and
\* that of the default option when the prompt is interrupted (ui.py:355-357).
UI_confirm(answer, default) ==
    IF answer = "yes" THEN TRUE
    ELSE IF answer = "no" THEN FALSE
    ELSE default

\* The prompts put to the user, in order: those of the kinds whose flag is set,
\* each with what the user did at it.
Asked(confirm, sudo, high_risk, normal) ==
    (IF sudo THEN <<[kind |-> "sudo", answer |-> confirm["sudo"]]>> ELSE <<>>) \o
    (IF high_risk THEN <<[kind |-> "high-risk", answer |-> confirm["high-risk"]]>> ELSE <<>>) \o
    (IF normal THEN <<[kind |-> "normal", answer |-> confirm["normal"]]>> ELSE <<>>)

\* tools.py:449-574: the command runs; ran is what the fallback path gave
\* (the tool of the agent has no persistent shell).
execute_run(asked, ran) ==
    [success |-> ran.success, stdout |-> ran.stdout, stderr |-> ran.stderr,
     asked |-> asked, handed |-> ran.handed, cwd |-> ran.cwd]

\* The high-risk confirmation is put only when confirm_first is set: AUTO mode
\* skips it.
execute_confirmed_high_risk_skipped(self, command, confirm_first, proc, confirm, fault, is_sudo, is_high_risk) ==
    IF is_sudo /\ ~UI_confirm(confirm["sudo"], FALSE)
    THEN Refused(ERR_CANCELLED_SUDO, Asked(confirm, TRUE, FALSE, FALSE), proc)
    ELSE IF is_high_risk /\ self.safe_mode /\ confirm_first /\ ~UI_confirm(confirm["high-risk"], FALSE)
    THEN Refused(ERR_CANCELLED_HIGH_RISK, Asked(confirm, is_sudo, TRUE, FALSE), proc)
    ELSE IF confirm_first /\ ~is_sudo /\ ~is_high_risk /\ ~UI_confirm(confirm["normal"], TRUE)
    THEN Refused(ERR_CANCELLED, Asked(confirm, FALSE, FALSE, TRUE), proc)
    ELSE execute_run(Asked(confirm, is_sudo, is_high_risk /\ self.safe_mode /\ confirm_first,
                           confirm_first /\ ~is_sudo /\ ~is_high_risk),
                     FALLBACK[<<command, proc, fault>>])

\* The sudo confirmation is put only when confirm_first is set: AUTO mode
\* skips it.
execute_confirmed_sudo_skipped(self, command, confirm_first, proc, confirm, fault, is_sudo, is_high_risk) ==
    IF is_sudo /\ confirm_first /\ ~UI_confirm(confirm["sudo"], FALSE)
    THEN Refused(ERR_CANCELLED_SUDO, Asked(confirm, TRUE, FALSE, FALSE), proc)
    ELSE IF is_high_risk /\ self.safe_mode /\ ~UI_confirm(confirm["high-risk"], FALSE)
    THEN Refused(ERR_CANCELLED_HIGH_RISK, Asked(confirm, is_sudo /\ confirm_first, TRUE, FALSE), proc)
    ELSE IF confirm_first /\ ~is_sudo /\ ~is_high_risk /\ ~UI_confirm(confirm["normal"], TRUE)
    THEN Refused(ERR_CANCELLED, Asked(confirm, FALSE, FALSE, TRUE), proc)
    ELSE execute_run(Asked(confirm, is_sudo /\ confirm_first, is_high_risk /\ self.safe_mode,
                           confirm_first /\ ~is_sudo /\ ~is_high_risk),
                     FALLBACK[<<command, proc, fault>>])

\* tools.py:419-447: the confirmations.  confirm[kind] is what the user does
\* if the prompt of that kind is put.
execute_confirmed(self, command, confirm_first, proc, confirm, fault, is_sudo, is_high_risk) ==
    IF is_sudo /\ ~UI_confirm(confirm["sudo"], FALSE)
    THEN Refused(ERR_CANCELLED_SUDO, Asked(confirm, TRUE, FALSE, FALSE), proc)
    ELSE IF is_high_risk /\ self.safe_mode /\ ~UI_confirm(confirm["high-risk"], FALSE)
    THEN Refused(ERR_CANCELLED_HIGH_RISK, Asked(confirm, is_sudo, TRUE, FALSE), proc)
    ELSE IF confirm_first /\ ~is_sudo /\ ~is_high_risk /\ ~UI_confirm(confirm["normal"], TRUE)
    THEN Refused(ERR_CANCELLED, Asked(confirm, FALSE, FALSE, TRUE), proc)
    ELSE execute_run(Asked(confirm, is_sudo, is_high_risk /\ self.safe_mode,
                           confirm_first /\ ~is_sudo /\ ~is_high_risk),
                     FALLBACK[<<command, proc, fault>>])

\* tools.py:420-421: command.lower().strip().startswith("sudo ")
is_sudo_command(command) == startswith(strip(lower(command)), <<"s","u","d","o"," ">>)

\* tools.py:429-433: any(keyword in command_lower for keyword in high_risk_keywords)
is_high_risk(command) == \E keyword \in high_risk_keywords : Contains(strip(lower(command)), keyword)

\* The two answers for every command of the universe, computed once.
RISK == Memo([command \in CommandUniverse |->
                [is_sudo_command |-> is_sudo_command(command),
                 is_high_risk    |-> is_high_risk(command)]])

execute_validated(self, command, confirm_first, proc, confirm, fault, validation) ==
    IF ~validation.is_valid
    THEN Refused(validation.msg, <<>>, proc)
    ELSE execute_confirmed(self, command, confirm_first, proc, confirm, fault,
                           RISK[command].is_sudo_command, RISK[command].is_high_risk)

\* TerminalTool.execute(command, require_confirm=confirm_first) in the process
\* state proc, tools.py:400-574.  asked lists the prompts put to the user,
\* handed the scripts given to a shell.
execute(self, Config_SAFE_MODE, command, confirm_first, proc, confirm, fault) ==
    IF self.safe_mode /\ Config_is_dangerous_command(Config_SAFE_MODE, command)
    THEN Refused(ERR_DANGEROUS_BLOCKED, <<>>, proc)
    ELSE execute_validated(self, command, confirm_first, proc, confirm, fault,
                           self_validate_command(self, Config_SAFE_MODE, command))

-----------------------------------------------------------------------------
(* The state.                                                               *)

VARIABLES
    SAFE_MODE,        \* Config.SAFE_MODE
    llm,              \* the backend of this behaviour, a member of LLMs
    token_stats,      \* llm.get_token_stats(); the backends in LLMs report no usage
    os,               \* [cwd, environ] of the Python process
    \* the CommandAgent
    history,          \* self.history, the Conversation
    system_prompt,    \* self.system_prompt
    max_steps,        \* self.max_steps
    max_idle_steps,   \* self.max_idle_steps
    require_confirm,  \* self.require_confirm
    auto_mode,        \* self.auto_mode
    tool,             \* self.tool, a TerminalTool
    \* CommandAgent.run
    pc,               \* "ready": no run yet, "loop": inside run, "returned",
                      \* "interrupted": a KeyboardInterrupt left run
    steps,            \* the list steps of the run
    current_step,
    idle_steps,
    returned,         \* the dict the last run returned
    \* what happened, recorded for the properties
    llm_calls,        \* calls of llm.generate in this run
    total_calls,      \* calls of llm.generate since the Conversation was seeded
    events,           \* what each iteration of this run did
    shell_log,        \* [step, command, script]: what this run handed to a shell
    prompts,          \* [step, kind, answer]: the confirmations this run put to the user
    run_start,        \* the Conversation when the loop of this run was entered
    \* PersistentShell
    ps_shells,        \* the PersistentShell objects that exist
    ps_files,         \* the files state_file, cwd_file and exit_code_file of the process
    ps_call,          \* the call of _execute_unix in progress
    ps_child,         \* the child process of that call
    ps_returned,      \* what the last call of execute returned
    ps_last,          \* [self, command] of the call of execute that returned last
    ps_calls          \* calls of execute so far

config_vars == <<SAFE_MODE, llm>>
shell_vars  == <<ps_shells, ps_files, ps_call, ps_child, ps_returned, ps_last, ps_calls>>
run_vars    == <<history, pc, steps, current_step, idle_steps, returned, llm_calls,
                 total_calls, events, shell_log, prompts, run_start>>
agent_vars  == <<system_prompt, max_steps, max_idle_steps, require_confirm, auto_mode, tool>>
vars == <<SAFE_MODE, llm, token_stats, os, history, system_prompt, max_steps, max_idle_steps,
          require_confirm, auto_mode, tool, pc, steps, current_step, idle_steps, returned,
          llm_calls, total_calls, events, shell_log, prompts, run_start,
          ps_shells, ps_files, ps_call, ps_child, ps_returned, ps_last, ps_calls>>

\* get_agent_system_prompt(auto_mode), prompts.py:315-321.  The prompts are long
\* texts that nothing in the loop reads; each is one opaque element here.
get_agent_system_prompt(auto) ==
    IF auto THEN <<"get_agent_system_prompt_auto()">>
            ELSE <<"get_agent_system_prompt_interactive()">>

Message(role, content) == [role |-> role, content |-> content]

\* The message is put before the others.
add_to_history_at_front(h, role, content) == <<Message(role, content)>> \o h

\* The history is cut to the system message and the newest messages when a
\* message is added.
add_to_history_trimmed(h, role, content) ==
    IF Len(h) >= 4
    THEN <<h[1]>> \o SubSeq(h, 3, Len(h)) \o <<Message(role, content)>>
    ELSE Append(h, Message(role, content))

\* BaseAgent.add_to_history, agents.py:22-23.
add_to_history(h, role, content) == Append(h, Message(role, content))

\* AGENT_USER_TEMPLATE.format(task=task)
format_user_template(task) == AGENT_USER_TEMPLATE_0 \o task \o AGENT_USER_TEMPLATE_1

str_bool(b) == IF b THEN STR_True ELSE STR_False

\* AGENT_OBSERVATION_TEMPLATE.format(command=, success=, output=, error=)
format_observation_template(command, success, output, error) ==
    AGENT_OBSERVATION_TEMPLATE_0 \o command \o AGENT_OBSERVATION_TEMPLATE_1 \o
    str_bool(success) \o AGENT_OBSERVATION_TEMPLATE_2 \o output \o
    AGENT_OBSERVATION_TEMPLATE_3 \o error \o AGENT_OBSERVATION_TEMPLATE_4

\* The observation of agents.py:386-391 for a Step Record.
observation_of(step_info) ==
    format_observation_template(
        step_info.command, step_info.success,
        IF step_info.success THEN step_info.stdout ELSE step_info.stderr,
        IF ~step_info.success THEN step_info.stderr ELSE <<>>)

\* A dict returned by run: the keys it has, and their values.
Result(keys, success, summary, error) ==
    [keys |-> keys, success |-> success, summary |-> summary, error |-> error]

NO_RESULT == Result({}, FALSE, <<>>, <<>>)

\* BaseLLM.__init__ and BaseLLM.reset_token_stats, models.py:14-20 and 54-59:
\* the four counters are 0.
NO_TOKENS == [prompt_tokens |-> 0, completion_tokens |-> 0, total_tokens |-> 0, call_count |-> 0]

\* The three files of the process before any PersistentShell exists: none is
\* there.  state_file holds a cd line (cd, empty when it has none) and export
\* lines (exports), cwd_file a path, exit_code_file a number; by is the call
\* of execute whose child wrote the exit code.
NO_FILES ==
    [state_file     |-> [exists |-> FALSE, cd |-> <<>>, exports |-> <<>>],
     cwd_file       |-> [exists |-> FALSE, text |-> <<>>],
     exit_code_file |-> [exists |-> FALSE, code |-> 0, by |-> 0]]

\* No call of _execute_unix is in progress.
NO_CALL ==
    [pc |-> "idle", self |-> 0, command |-> <<>>, timeout |-> 0, elapsed |-> 0,
     open_fds |-> {}]

\* The child of a call: state is "none" before the first fork, then "running",
\* "exited" or "killed"; stage is how far the script has got.
Child(state, stage, cwd, environ, out, rc) ==
    [state |-> state, stage |-> stage, cwd |-> cwd, environ |-> environ, out |-> out,
     rc |-> rc]

\* What execute returned, (success, stdout, stderr), and the call that returned it.
Returned(success, stdout, stderr, call) ==
    [success |-> success, stdout |-> stdout, stderr |-> stderr, call |-> call]

-----------------------------------------------------------------------------
(* CommandAgent.__init__, agents.py:135-151, and the start of the process.  *)

Init ==
    /\ SAFE_MODE \in BOOLEAN
    /\ llm \in LLMs
    /\ token_stats = NO_TOKENS
    /\ os = [cwd |-> DIR_HOME, environ |-> <<>>]
    /\ auto_mode \in BOOLEAN
    /\ require_confirm \in BOOLEAN
    /\ max_steps \in 1..MaxSteps
    /\ max_idle_steps \in 1..MaxIdleSteps
    /\ tool = TerminalTool(TRUE, FALSE, SAFE_MODE)
    /\ system_prompt = get_agent_system_prompt(auto_mode)
    /\ history = add_to_history(<<>>, "system", system_prompt)
    /\ pc = "ready"
    /\ steps = <<>>
    /\ current_step = 0
    /\ idle_steps = 0
    /\ returned = NO_RESULT
    /\ llm_calls = 0
    /\ total_calls = 0
    /\ events = <<>>
    /\ shell_log = <<>>
    /\ prompts = <<>>
    /\ run_start = <<>>
    /\ ps_shells = {}
    /\ ps_files = NO_FILES
    /\ ps_call = NO_CALL
    /\ ps_child = Child("none", 0, <<>>, <<>>, <<>>, 0)
    /\ ps_returned = Returned(FALSE, <<>>, <<>>, 0)
    /\ ps_last = [self |-> 0, command |-> <<>>]
    /\ ps_calls = 0

-----------------------------------------------------------------------------
(* CommandAgent.run, agents.py:153-419.                                     *)

\* The task is added to the history whenever one is given, also when the run
\* continues an earlier one.
Run_continue_appends_task(task, continue_execution) ==
    /\ pc \in {"ready", "returned"}
    /\ total_calls + max_steps <= MaxCalls
    /\ continue_execution <=> (pc = "returned" /\ returned.error = ERROR_MAX_STEPS)
    /\ LET enters   == task # <<>> \/ continue_execution
           history2 == IF task # <<>>
                       THEN add_to_history(history, "user", format_user_template(task))
                       ELSE history
       IN  /\ history' = history2
           /\ run_start' = history2
           /\ pc' = IF enters THEN "loop" ELSE "returned"
           /\ returned' = IF enters THEN NO_RESULT
                        ELSE Result({"success", "error"}, FALSE, <<>>, ERROR_NO_TASK)
    /\ steps' = <<>>
    /\ current_step' = 0
    /\ idle_steps' = 0
    /\ llm_calls' = 0
    /\ events' = <<>>
    /\ shell_log' = <<>>
    /\ prompts' = <<>>
    /\ UNCHANGED <<config_vars, token_stats, shell_vars, agent_vars, os, total_calls>>

\* agents.py:161-177: the entry of run.  A task of None and a task of "" are
\* both false to "and task"; <<>> stands for either.  The caller continues a
\* run that used up its steps, and gives a task otherwise.
Run(task, continue_execution) ==
    /\ pc \in {"ready", "returned"}
    /\ total_calls + max_steps <= MaxCalls
    /\ continue_execution <=> (pc = "returned" /\ returned.error = ERROR_MAX_STEPS)
    /\ LET enters   == (~continue_execution /\ task # <<>>) \/ continue_execution
           history2 == IF ~continue_execution /\ task # <<>>
                       THEN add_to_history(history, "user", format_user_template(task))
                       ELSE history
       IN  /\ history' = history2
           /\ run_start' = history2
           /\ pc' = IF enters THEN "loop" ELSE "returned"
           /\ returned' = IF enters THEN NO_RESULT
                        ELSE Result({"success", "error"}, FALSE, <<>>, ERROR_NO_TASK)
    /\ steps' = <<>>
    /\ current_step' = 0
    /\ idle_steps' = 0
    /\ llm_calls' = 0
    /\ events' = <<>>
    /\ shell_log' = <<>>
    /\ prompts' = <<>>
    /\ UNCHANGED <<config_vars, token_stats, shell_vars, agent_vars, os, total_calls>>

\* One pass through the body of the while loop (agents.py:179-392) in which
\* generate was called: what the pass leaves behind.  returns says whether the
\* pass ended in a return statement, and then res is the dict returned.
Iteration(event, history2, steps2, idle2, returns, res, os2, handed, asked) ==
    /\ current_step' = current_step + 1
    /\ llm_calls' = llm_calls + 1
    /\ total_calls' = total_calls + 1
    /\ events' = Append(events, event)
    /\ history' = history2
    /\ steps' = steps2
    /\ idle_steps' = idle2
    /\ pc' = IF returns THEN "returned" ELSE "loop"
    /\ returned' = IF returns THEN res ELSE returned
    /\ os' = os2
    /\ shell_log' = shell_log \o [i \in 1..Len(handed) |->
                                    [step    |-> current_step + 1,
                                     command |-> handed[i].command,
                                     script  |-> handed[i].script]]
    /\ prompts' = prompts \o [i \in 1..Len(asked) |->
                                [step |-> current_step + 1, kind |-> asked[i].kind,
                                 answer |-> asked[i].answer]]
    /\ UNCHANGED <<config_vars, token_stats, shell_vars, agent_vars, run_start>>

\* The idle budget compared with > in the place of >=.
IdleIteration_off_by_one(event, history2, idle, res) ==
    Iteration(event, history2, steps, idle + 1, idle + 1 > max_idle_steps, res,
              os, <<>>, <<>>)

\* A pass that counts as idle: idle_steps += 1, and the run returns res when
\* the idle budget is used up (agents.py:207-216, 221-230, 235-244, 262-271).
IdleIteration(event, history2, idle, res) ==
    Iteration(event, history2, steps, idle + 1, idle + 1 >= max_idle_steps, res,
              os, <<>>, <<>>)

\* The loop condition with <= in the place of <.
InLoop_off_by_one == pc = "loop" /\ current_step <= max_steps

\* agents.py:179: while current_step < max_steps.
InLoop == pc = "loop" /\ current_step < max_steps

\* agents.py:196-216: generate raises.
LLMRaises ==
    /\ InLoop
    /\ llm.raises
    /\ IdleIteration("llm_error", history, idle_steps,
                     Result({"success", "steps", "error"}, FALSE, <<>>,
                            ERROR_LLM_FAILED_PREFIX \o LLM_ERROR))

\* agents.py:219-230: generate returns None.
LLMReturnsNone ==
    /\ InLoop
    /\ llm.none
    /\ IdleIteration("none_response", history, idle_steps,
                     Result({"success", "steps", "summary"}, FALSE, SUMMARY_NONE_RESPONSE, <<>>))

\* The empty reply is added to the history as any other reply is.
EmptyResponse_with_message ==
    IdleIteration("empty_response", add_to_history(history, "assistant", <<>>), idle_steps,
                  Result({"success", "steps", "summary"}, FALSE, SUMMARY_EMPTY_RESPONSE, <<>>))

\* agents.py:232-244: the reply is empty or blank.
EmptyResponse ==
    IdleIteration("empty_response", history, idle_steps,
                  Result({"success", "steps", "summary"}, FALSE, SUMMARY_EMPTY_RESPONSE, <<>>))

\* agents.py:249-271: no JSON was parsed from the reply.
Unparseable(response, history1) ==
    IF is_final_summary(response)
    THEN Iteration("final_summary", history1, steps, idle_steps, TRUE,
                   Result({"success", "steps", "summary"}, TRUE, response, <<>>),
                   os, <<>>, <<>>)
    ELSE IdleIteration("unparseable", history1, idle_steps,
                       Result({"success", "steps", "summary"}, FALSE,
                              IF response # <<>> THEN response ELSE SUMMARY_NO_COMMAND, <<>>))

\* What a user types at a prompt, ui.input_prompt ("" for no input).
UserTexts == {<<>>, DIR_TMP}

\* What ui.select_option can return (ui.py:311-357): the text of an option
\* (that of the first one when the prompt is interrupted), or the text typed
\* when custom input is allowed, stripped (ui.py:337-343).
select_option(options, allow_custom_input) ==
    {options[k].text : k \in 1..Len(options)} \cup
    (IF allow_custom_input THEN {strip(text) : text \in UserTexts} \ {<<>>} ELSE {})

\* An empty reply of the user is added to the history as any other, and the
\* loop goes on.
Interaction_empty_reply_goes_on(command_info, history1) ==
    IF ~auto_mode
    THEN \E user_response \in
                IF Len(command_info.options) > 0
                THEN select_option(command_info.options, command_info.allow_custom_input)
                ELSE UserTexts :
            Iteration(IF user_response = <<>> THEN "interaction_cancelled" ELSE "interaction",
                      add_to_history(history1, "user", user_response),
                      steps, 0, FALSE, NO_RESULT, os, <<>>, <<>>)
    ELSE Iteration("interaction_ignored", history1, steps, 0, FALSE, NO_RESULT,
                   os, <<>>, <<>>)

\* The reply of the user is put into the template of a task.
Interaction_templated(command_info, history1) ==
    IF ~auto_mode
    THEN \E user_response \in
                IF Len(command_info.options) > 0
                THEN select_option(command_info.options, command_info.allow_custom_input)
                ELSE UserTexts :
            IF user_response = <<>>
            THEN Iteration("interaction_cancelled", history1, steps, 0, TRUE,
                           Result({"success", "steps", "summary"}, FALSE,
                                  SUMMARY_INTERACTION_CANCELLED, <<>>),
                           os, <<>>, <<>>)
            ELSE Iteration("interaction",
                           add_to_history(history1, "user", format_user_template(user_response)),
                           steps, 0, FALSE, NO_RESULT, os, <<>>, <<>>)
    ELSE Iteration("interaction_ignored", history1, steps, 0, FALSE, NO_RESULT,
                   os, <<>>, <<>>)

\* The user is asked in AUTO mode as in interactive mode.
Interaction_asks_in_auto(command_info, history1) ==
    \E user_response \in
            IF Len(command_info.options) > 0
            THEN select_option(command_info.options, command_info.allow_custom_input)
            ELSE UserTexts :
        IF user_response = <<>>
        THEN Iteration("interaction_cancelled", history1, steps, 0, TRUE,
                       Result({"success", "steps", "summary"}, FALSE,
                              SUMMARY_INTERACTION_CANCELLED, <<>>),
                       os, <<>>, <<>>)
        ELSE Iteration(IF auto_mode THEN "interaction_ignored" ELSE "interaction",
                       add_to_history(history1, "user", user_response),
                       steps, 0, FALSE, NO_RESULT, os, <<>>, <<>>)

\* An interaction request ignored in AUTO mode counts as an idle pass.
Interaction_ignored_is_idle(command_info, history1) ==
    IF ~auto_mode
    THEN \E user_response \in
                IF Len(command_info.options) > 0
                THEN select_option(command_info.options, command_info.allow_custom_input)
                ELSE UserTexts :
            IF user_response = <<>>
            THEN Iteration("interaction_cancelled", history1, steps, 0, TRUE,
                           Result({"success", "steps", "summary"}, FALSE,
                                  SUMMARY_INTERACTION_CANCELLED, <<>>),
                           os, <<>>, <<>>)
            ELSE Iteration("interaction", add_to_history(history1, "user", user_response),
                           steps, 0, FALSE, NO_RESULT, os, <<>>, <<>>)
    ELSE Iteration("interaction_ignored", history1, steps, idle_steps + 1,
                   idle_steps + 1 >= max_idle_steps,
                   Result({"success", "steps", "summary"}, FALSE, command_info.message, <<>>),
                   os, <<>>, <<>>)

\* agents.py:276-334: an interaction request.
Interaction(command_info, history1) ==
    IF ~auto_mode
    THEN \E user_response \in
                IF Len(command_info.options) > 0
                THEN select_option(command_info.options, command_info.allow_custom_input)
                ELSE UserTexts :
            IF user_response = <<>>
            THEN Iteration("interaction_cancelled", history1, steps, 0, TRUE,
                           Result({"success", "steps", "summary"}, FALSE,
                                  SUMMARY_INTERACTION_CANCELLED, <<>>),
                           os, <<>>, <<>>)
            ELSE Iteration("interaction", add_to_history(history1, "user", user_response),
                           steps, 0, FALSE, NO_RESULT, os, <<>>, <<>>)
    ELSE Iteration("interaction_ignored", history1, steps, 0, FALSE, NO_RESULT,
                   os, <<>>, <<>>)

\* Every reply with a status ends the run as a success.
Terminal_any_status_succeeds(command_info, history1) ==
    Iteration("terminal", history1, steps, 0, TRUE,
              Result({"success", "steps", "summary"}, TRUE, command_info.summary, <<>>),
              os, <<>>, <<>>)

\* agents.py:340-351: a reply with a status.
Terminal(command_info, history1) ==
    Iteration("terminal", history1, steps, 0, TRUE,
              Result({"success", "steps", "summary"}, command_info.status = STATUS_SUCCESS,
                     command_info.summary, <<>>),
              os, <<>>, <<>>)

\* agents.py:377-383
StepInfo(step, command, done) ==
    [step |-> step, command |-> command, success |-> done.success,
     stdout |-> done.stdout, stderr |-> done.stderr]

\* The command is run and no observation is added to the history.
Executed_without_observation(step_info, history1, done) ==
    Iteration("executed", history1, Append(steps, step_info), 0, FALSE, NO_RESULT,
              [os EXCEPT !.cwd = done.cwd],
              [i \in 1..Len(done.handed) |->
                  [command |-> step_info.command, script |-> done.handed[i]]],
              done.asked)

\* A confirmation that the user declines ends the run.
Executed_decline_ends_run(step_info, history1, done) ==
    Iteration("executed", add_to_history(history1, "user", observation_of(step_info)),
              Append(steps, step_info), 0,
              done.asked # <<>> /\ done.handed = <<>>,
              Result({"success", "steps", "summary"}, FALSE, done.stderr, <<>>),
              [os EXCEPT !.cwd = done.cwd],
              [i \in 1..Len(done.handed) |->
                  [command |-> step_info.command, script |-> done.handed[i]]],
              done.asked)

\* agents.py:370-392: the command is run; done is what execute gave.
Executed(step_info, history1, done) ==
    Iteration("executed", add_to_history(history1, "user", observation_of(step_info)),
              Append(steps, step_info), 0, FALSE, NO_RESULT,
              [os EXCEPT !.cwd = done.cwd],
              [i \in 1..Len(done.handed) |->
                  [command |-> step_info.command, script |-> done.handed[i]]],
              done.asked)

\* The rejection is not reported to the LLM.
Rejected_without_observation(msg, history1) ==
    IdleIteration("rejected", history1, 0,
                  Result({"success", "steps", "summary"}, FALSE, SUMMARY_INVALID_COMMANDS, <<>>))

\* agents.py:356-369: the command is rejected.  idle_steps is 0 here, set at
\* agents.py:273.
Rejected(msg, history1) ==
    IdleIteration("rejected",
                  add_to_history(history1, "user", OBSERVATION_INVALID_PREFIX \o msg),
                  0,
                  Result({"success", "steps", "summary"}, FALSE, SUMMARY_INVALID_COMMANDS, <<>>))

\* agents.py:394-412: an exception raised in the iteration is caught and ends
\* the run.  idle_steps is 0 here, set at agents.py:273.
Raised(error_msg, history1) ==
    Iteration("exception", history1, steps, 0, TRUE,
              Result({"success", "steps", "error"}, FALSE, <<>>, error_msg),
              os, <<>>, <<>>)

\* What the user does at the confirmations that execute can put for the
\* command (tools.py:419-447); a prompt that is not put gets no answer, and
\* stands here with the one answer "yes".
UserAnswers(self, command, confirm_first) ==
    {confirm \in [ConfirmKinds -> Answers] :
        /\ ~RISK[command].is_sudo_command => confirm["sudo"] = "yes"
        /\ ~(RISK[command].is_high_risk /\ self.safe_mode) => confirm["high-risk"] = "yes"
        /\ ~(confirm_first /\ ~RISK[command].is_sudo_command /\ ~RISK[command].is_high_risk)
                => confirm["normal"] = "yes"}

\* require_confirm is passed to execute as it is: AUTO mode does not switch the
\* normal confirmation off.
Command_confirms_in_auto(command, history1, validation) ==
    IF ~validation.is_valid
    THEN Rejected(validation.msg, history1)
    ELSE \E confirm \in UserAnswers(tool, command, require_confirm), fault \in llm.faults :
            \E done \in {execute(tool, SAFE_MODE, command, require_confirm,
                                  os, confirm, fault)} :
                Executed(StepInfo(current_step + 1, command, done), history1, done)

\* agents.py:353-392: a reply with a command.
Command(command, history1, validation) ==
    IF ~validation.is_valid
    THEN Rejected(validation.msg, history1)
    ELSE \E confirm \in UserAnswers(tool, command, require_confirm /\ ~auto_mode),
            fault \in llm.faults :
            \E done \in {execute(tool, SAFE_MODE, command, require_confirm /\ ~auto_mode,
                                  os, confirm, fault)} :
                Executed(StepInfo(current_step + 1, command, done), history1, done)

\* agents.py:276-392: the reply was parsed into the dict command_info.
Parsed(command_info, history1) ==
    IF "interaction" \in command_info.keys /\ command_info.interaction
    THEN Interaction(command_info, history1)
    ELSE IF "status" \in command_info.keys
    THEN Terminal(command_info, history1)
    ELSE IF "command" \in command_info.keys
    THEN IF command_info.command_is_str
         THEN Command(command_info.command, history1,
                      self_validate_command(tool, SAFE_MODE, command_info.command))
         ELSE Raised(ERROR_INT_STRIP, history1)
    ELSE Iteration("no_intent", history1, steps, 0, FALSE, NO_RESULT, os, <<>>, <<>>)

\* agents.py:246-273: the reply is added to the history and parsed.
Response(response, history1, parsing) ==
    IF parsing.is_none
    THEN Unparseable(response, history1)
    ELSE Parsed(parsing.info, history1)

\* agents.py:232-392: generate returned a str.
LLMReplies ==
    /\ InLoop
    /\ \E response \in llm.replies :
        IF strip(response) = <<>>
        THEN EmptyResponse
        ELSE Response(response, add_to_history(history, "assistant", response),
                      PARSED[response])

\* agents.py:183-199: the user presses Ctrl-C while generate runs.  Neither
\* models.py:130 nor agents.py:196 and 394 (except Exception) catches the
\* KeyboardInterrupt: it leaves run, which returns nothing, and main.py:576-579
\* ends the session.
LLMInterrupted ==
    /\ InLoop
    /\ current_step' = current_step + 1
    /\ llm_calls' = llm_calls + 1
    /\ total_calls' = total_calls + 1
    /\ events' = Append(events, "llm_interrupted")
    /\ pc' = "interrupted"
    /\ UNCHANGED <<config_vars, token_stats, shell_vars, agent_vars, os, history, steps, idle_steps, returned,
                   shell_log, prompts, run_start>>

\* agents.py:179 and 414-419: the loop condition fails.
MaxStepsReached ==
    /\ pc = "loop"
    /\ current_step >= max_steps
    /\ pc' = "returned"
    /\ returned' = Result({"success", "steps", "error"}, FALSE, <<>>, ERROR_MAX_STEPS)
    /\ UNCHANGED <<config_vars, token_stats, shell_vars, agent_vars, os, history, steps, current_step, idle_steps,
                   llm_calls, total_calls, events, shell_log, prompts, run_start>>

-----------------------------------------------------------------------------
(* MiniShellAgent, main.py: what the user does between two runs.            *)

\* What CommandAgent.run leaves behind is of one run of one agent: nothing of
\* it is left when the agent is replaced or its history is emptied.
NoRun ==
    /\ pc' = "ready"
    /\ steps' = <<>>
    /\ current_step' = 0
    /\ idle_steps' = 0
    /\ returned' = NO_RESULT
    /\ llm_calls' = 0
    /\ events' = <<>>
    /\ shell_log' = <<>>
    /\ prompts' = <<>>
    /\ run_start' = <<>>

\* main.py:69-89 through /auto, /interactive and /agent: a new CommandAgent.
\* /agent coming from another mode resets the token statistics as well
\* (main.py:202-203); /auto and /interactive leave them.
CreateAgent(auto, confirm_wanted) ==
    /\ pc \in {"ready", "returned"}
    /\ auto_mode' = auto
    /\ require_confirm' = IF auto THEN FALSE ELSE confirm_wanted
    /\ tool' = TerminalTool(TRUE, FALSE, SAFE_MODE)
    /\ system_prompt' = get_agent_system_prompt(auto)
    /\ history' = add_to_history(<<>>, "system", get_agent_system_prompt(auto))
    /\ NoRun
    /\ total_calls' = 0
    /\ token_stats' \in {token_stats, NO_TOKENS}
    /\ UNCHANGED <<config_vars, shell_vars, os, max_steps, max_idle_steps>>

\* main.py:176-190, /clean: the history is emptied and seeded again, and the
\* token statistics are reset.
Clean ==
    /\ pc \in {"ready", "returned"}
    /\ system_prompt' = get_agent_system_prompt(FALSE)
    /\ history' = add_to_history(<<>>, "system", get_agent_system_prompt(FALSE))
    /\ NoRun
    /\ total_calls' = 0
    /\ token_stats' = NO_TOKENS
    /\ UNCHANGED <<config_vars, shell_vars, os, max_steps, max_idle_steps, require_confirm, auto_mode,
                   tool>>

\* The steps in which every call made returns.
NextReturning ==
    \/ \E task \in {<<>>, TASK}, continue_execution \in BOOLEAN : Run(task, continue_execution)
    \/ LLMRaises
    \/ LLMReturnsNone
    \/ LLMReplies
    \/ MaxStepsReached
    \/ \E auto \in BOOLEAN, confirm_wanted \in BOOLEAN : CreateAgent(auto, confirm_wanted)
    \/ Clean

Next ==
    \/ NextReturning
    \/ LLMInterrupted

Spec == Init /\ [][Next]_vars

\* Every LLM call, user prompt and command execution returns, and the code gets
\* to the next statement: a run that is in its loop goes on.
FairSpec ==
    /\ Init
    /\ [][NextReturning]_vars
    /\ WF_vars(LLMRaises \/ LLMReturnsNone \/ LLMReplies \/ MaxStepsReached)

-----------------------------------------------------------------------------
(* PersistentShell on a Unix system, tools.py:25-384.  Every object of the  *)
(* process names the same three files, since their paths are made of        *)
(* os.getpid() alone (tools.py:55-56, 187).  The environment of the model   *)
(* holds the variables its commands name; their values have no quote        *)
(* character, so the quoting of an export line (tools.py:224-227) and its   *)
(* removal (tools.py:347-351) give the value back.                          *)

\* The PersistentShell objects of the process at one time: /complete makes a
\* new one while the one it replaces is still there (main.py:205-211).
MaxShells == 2

\* The calls of execute in a behaviour.
MaxShellCalls == 3

\* The seconds a call is followed for.
MaxElapsed == 2

\* The timeout argument of execute: 0 stands for None and 0, which
\* "if timeout and ..." (tools.py:277) both take as no timeout.
Timeouts == {0, 1}

SH_EXIT  == <<"e", "x", "i", "t", " ">>
SH_UNSET == <<"u", "n", "s", "e", "t", " ">>

\* The commands given to execute.
ShellCommands ==
    {SH_PWD, SH_CD \o DIR_TMP, SH_CD \o <<"/", "n", "o", "w", "h", "e", "r", "e">>, SH_EXPORT \o <<"F", "O", "O", "=", "b", "a", "r">>,
     SH_ECHO \o <<"$", "F", "O", "O">>, SH_UNSET \o <<"F", "O", "O">>, SH_EXIT \o <<"1">>}

\* str(e) of the OSError that os.close raises for a descriptor that is not open.
ERR_EBADF == <<"[", "E", "r", "r", "n", "o", " ", "9", "]", " ", "B", "a", "d", " ", "f", "i", "l", "e", " ", "d", "e", "s", "c", "r", "i", "p", "t", "o", "r">>

\* os.close(fd) with the descriptors in open_fds open.
os_close(open_fds, fd) == [raised |-> fd \notin open_fds, open_fds |-> open_fds \ {fd}]

\* The shell sources state_file (tools.py:206-209): the cd line, then the
\* export lines.
source_state_file(file, st) ==
    IF ~file.exists THEN st
    ELSE [st EXCEPT !.cwd = IF file.cd # <<>> /\ isdir(file.cd) THEN file.cd ELSE @,
                    !.environ = file.exports @@ @]

\* The shell runs the command of the call (tools.py:211-213) in the state
\* st = [cwd, environ, out, rc, ended]: "exit 1" ends the shell with that code, "unset K"
\* removes a variable, and the rest is as in ShList; what a failing command
\* writes to stderr goes to the terminal with the rest.
run_command(command, st) ==
    IF startswith(strip(command), SH_EXIT)
    THEN [st EXCEPT !.rc = 1, !.ended = TRUE]
    ELSE IF startswith(strip(command), SH_UNSET)
    THEN [st EXCEPT !.environ =
              [k \in DOMAIN @ \ {SubSeq(strip(command), Len(SH_UNSET) + 1, Len(strip(command)))}
                  |-> @[k]]]
    ELSE LET r == ShList(split(command, SH_AND), [cwd |-> st.cwd, environ |-> st.environ,
                                                  out |-> st.out, rc |-> 0])
         IN  [ended |-> FALSE, cwd |-> r.cwd, environ |-> r.environ, rc |-> r.rc,
              out |-> IF r.rc = 0 THEN r.out ELSE r.out \o SH_ERR \o <<"\n">>]

RECURSIVE onlcr(_)
\* What the terminal makes of the output of the child: a newline is sent as
\* carriage return and newline.
onlcr(out) ==
    IF out = <<>> THEN <<>>
    ELSE (IF Head(out) = "\n" THEN <<"\r", "\n">> ELSE <<Head(out)>>) \o onlcr(Tail(out))

\* PersistentShell.__init__ and _init_state, tools.py:28-80: the object self
\* is created and writes cwd_file and state_file.
PersistentShell_init(self) ==
    /\ ps_call.pc = "idle"
    /\ self \notin ps_shells
    /\ ps_shells' = ps_shells \cup {self}
    /\ ps_files' = [ps_files EXCEPT
           !.cwd_file   = [exists |-> TRUE, text |-> os.cwd],
           !.state_file = [exists |-> TRUE, cd |-> os.cwd, exports |-> os.environ]]
    /\ UNCHANGED <<config_vars, token_stats, agent_vars, run_vars, os, ps_call, ps_child, ps_returned, ps_last,
                   ps_calls>>

\* PersistentShell.close, tools.py:373-380, which __del__ calls as well:
\* state_file and cwd_file are removed.
PersistentShell_close(self) ==
    /\ ps_call.pc = "idle"
    /\ self \in ps_shells
    /\ ps_shells' = ps_shells \ {self}
    /\ ps_files' = [ps_files EXCEPT !.cwd_file.exists = FALSE, !.cwd_file.text = <<>>,
                                    !.state_file = NO_FILES.state_file]
    /\ UNCHANGED <<config_vars, token_stats, agent_vars, run_vars, os, ps_call, ps_child, ps_returned, ps_last,
                   ps_calls>>

\* execute and _execute_unix up to the loop, tools.py:89-271: the terminal is
\* opened and the child forked; it starts with the cwd and the environment of
\* the parent.
PersistentShell_execute(self, command, timeout) ==
    /\ ps_call.pc = "idle"
    /\ self \in ps_shells
    /\ ps_calls < MaxShellCalls
    /\ ps_calls' = ps_calls + 1
    /\ ps_call' = [pc |-> "loop", self |-> self, command |-> command, timeout |-> timeout,
                   elapsed |-> 0, open_fds |-> {"master_fd"}]
    /\ ps_child' = Child("running", 0, os.cwd, os.environ, <<>>, 0)
    /\ UNCHANGED <<config_vars, token_stats, agent_vars, run_vars, os, ps_shells, ps_files, ps_returned, ps_last>>

\* The child runs the next part of the script, tools.py:199-228: it sources
\* state_file and runs the command (stage 1), writes exit_code_file (2),
\* writes cwd_file (3), writes state_file and exits.  A command that ends the
\* shell ends the script with it.
ChildRuns ==
    /\ ps_child.state = "running"
    /\ IF ps_child.stage = 0
       THEN LET st == run_command(ps_call.command,
                                  [ended |-> FALSE] @@
                                  source_state_file(ps_files.state_file, ps_child))
            IN  /\ ps_child' = Child(IF st.ended THEN "exited" ELSE "running", 1,
                                     st.cwd, st.environ, st.out, st.rc)
                /\ UNCHANGED ps_files
       ELSE IF ps_child.stage = 1
       THEN /\ ps_files' = [ps_files EXCEPT !.exit_code_file =
                                [exists |-> TRUE, code |-> ps_child.rc, by |-> ps_calls]]
            /\ ps_child' = [ps_child EXCEPT !.stage = 2]
       ELSE IF ps_child.stage = 2
       THEN /\ ps_files' = [ps_files EXCEPT !.cwd_file =
                                [exists |-> TRUE, text |-> ps_child.cwd \o <<"\n">>]]
            /\ ps_child' = [ps_child EXCEPT !.stage = 3]
       ELSE /\ ps_files' = [ps_files EXCEPT !.state_file =
                                [exists |-> TRUE, cd |-> <<>>, exports |-> ps_child.environ]]
            /\ ps_child' = [ps_child EXCEPT !.stage = 4, !.state = "exited"]
    /\ UNCHANGED <<config_vars, token_stats, agent_vars, run_vars, os, ps_shells, ps_call, ps_returned, ps_last,
                   ps_calls>>

\* A second passes with the child still running.  The loop looks for the exit
\* of the child ten times a second (tools.py:284, 301), so a child that has
\* exited is found before the second is over.  The time is read only by a call
\* with a timeout (tools.py:277) and is followed for such a call only.
SecondPasses ==
    /\ ps_call.pc = "loop"
    /\ ps_call.timeout # 0
    /\ ps_child.state = "running"
    /\ ps_call.elapsed < MaxElapsed
    /\ ps_call' = [ps_call EXCEPT !.elapsed = @ + 1]
    /\ UNCHANGED <<config_vars, token_stats, agent_vars, run_vars, os, ps_shells, ps_files, ps_child,
                   ps_returned, ps_last, ps_calls>>

\* tools.py:277
timed_out(call) == call.timeout # 0 /\ call.elapsed > call.timeout

\* The iteration of the loop that finds the timeout passed, tools.py:277-281:
\* the child is killed, master_fd closed and the triple returned; on the way
\* out the finally clause closes master_fd again (tools.py:315-316), and what
\* that raises is caught at tools.py:358-359.
ExecuteTimesOut ==
    /\ ps_call.pc = "loop"
    /\ timed_out(ps_call)
    /\ LET closed   == os_close(ps_call.open_fds, "master_fd")
           finally  == os_close(closed.open_fds, "master_fd")
       IN  ps_returned' = IF closed.raised \/ finally.raised
                          THEN Returned(FALSE, <<>>, ERR_EBADF, ps_calls)
                          ELSE Returned(FALSE, <<>>, ERR_TIMEOUT, ps_calls)
    /\ ps_child' = Child(IF ps_child.state = "running" THEN "killed" ELSE ps_child.state,
                         ps_child.stage, <<>>, <<>>, <<>>, 0)
    /\ ps_last' = [self |-> ps_call.self, command |-> ps_call.command]
    /\ ps_call' = NO_CALL
    /\ UNCHANGED <<config_vars, token_stats, agent_vars, run_vars, os, ps_shells, ps_files, ps_calls>>

\* The process stays in its directory when a call returns.
ExecuteCompletes_without_chdir ==
    /\ ps_call.pc = "loop"
    /\ ~timed_out(ps_call)
    /\ ps_child.state = "exited"
    /\ ps_returned' = Returned(~ps_files.exit_code_file.exists \/ ps_files.exit_code_file.code = 0,
                               onlcr(ps_child.out), <<>>, ps_calls)
    /\ ps_files' = [ps_files EXCEPT !.exit_code_file = NO_FILES.exit_code_file]
    /\ os' = [cwd     |-> os.cwd,
              environ |-> IF ps_files.state_file.exists
                          THEN ps_files.state_file.exports @@ os.environ ELSE os.environ]
    /\ ps_child' = Child("exited", ps_child.stage, <<>>, <<>>, <<>>, 0)
    /\ ps_last' = [self |-> ps_call.self, command |-> ps_call.command]
    /\ ps_call' = NO_CALL
    /\ UNCHANGED <<config_vars, token_stats, agent_vars, run_vars, ps_shells, ps_calls>>

\* The iteration of the loop that finds the child exited, and what follows the
\* loop, tools.py:283-356: the rest of the output is read, master_fd closed,
\* exit_code_file read and removed, the process changes to the directory in
\* cwd_file and takes the variables of state_file.
ExecuteCompletes ==
    /\ ps_call.pc = "loop"
    /\ ~timed_out(ps_call)
    /\ ps_child.state = "exited"
    /\ ps_returned' = Returned(~ps_files.exit_code_file.exists \/ ps_files.exit_code_file.code = 0,
                               onlcr(ps_child.out), <<>>, ps_calls)
    /\ ps_files' = [ps_files EXCEPT !.exit_code_file = NO_FILES.exit_code_file]
    /\ os' = [cwd     |-> IF /\ ps_files.cwd_file.exists
                             /\ strip(ps_files.cwd_file.text) # <<>>
                             /\ isdir(strip(ps_files.cwd_file.text))
                          THEN strip(ps_files.cwd_file.text) ELSE os.cwd,
              environ |-> IF ps_files.state_file.exists
                          THEN ps_files.state_file.exports @@ os.environ ELSE os.environ]
    /\ ps_child' = Child("exited", ps_child.stage, <<>>, <<>>, <<>>, 0)
    /\ ps_last' = [self |-> ps_call.self, command |-> ps_call.command]
    /\ ps_call' = NO_CALL
    /\ UNCHANGED <<config_vars, token_stats, agent_vars, run_vars, ps_shells, ps_calls>>

\* A process that uses PersistentShell and runs no agent: the agent is fixed.
ShellInit ==
    /\ Init
    /\ SAFE_MODE /\ ~auto_mode /\ require_confirm
    /\ max_steps = 1 /\ max_idle_steps = 1
    /\ llm = CHOOSE l \in LLMs : TRUE

ShellNext ==
    \/ \E self \in 1..MaxShells : PersistentShell_init(self)
    \/ \E self \in 1..MaxShells : PersistentShell_close(self)
    \/ \E self \in 1..MaxShells, command \in ShellCommands, timeout \in Timeouts :
           PersistentShell_execute(self, command, timeout)
    \/ ChildRuns
    \/ SecondPasses
    \/ ExecuteTimesOut
    \/ ExecuteCompletes

ShellSpec == ShellInit /\ [][ShellNext]_vars

-----------------------------------------------------------------------------
(* The token statistics of the LLM client, models.py:14-59 and 109-129.     *)

\* The calls of generate that are counted in a behaviour.
MaxGenerateCalls == 3

\* The largest number of tokens a backend reports for one call.
MaxUsage == 2

\* What a field of response.usage holds: None, written <<>>, or a number n,
\* written <<n>>; the numbers of the model are 0, 1 and the largest one.
UsageValues == {<<>>, <<0>>, <<1>>, <<MaxUsage>>}

\* response.usage: absent or None (reported is FALSE), or an object with the
\* three fields.
Usages ==
    {[reported |-> FALSE, prompt_tokens |-> <<>>, completion_tokens |-> <<>>,
      total_tokens |-> <<>>]} \cup
    [reported : {TRUE}, prompt_tokens : UsageValues, completion_tokens : UsageValues,
     total_tokens : UsageValues]

\* "value or 0", models.py:120-122.
or_0(value) == IF value = <<>> THEN 0 ELSE value[1]

\* A call that fails is counted as well.
OpenAILLM_generate_counts_failures(outcome, usage) ==
    /\ token_stats.call_count < MaxGenerateCalls
    /\ token_stats' =
           IF outcome = "content" /\ usage.reported
           THEN [prompt_tokens     |-> token_stats.prompt_tokens + or_0(usage.prompt_tokens),
                 completion_tokens |-> token_stats.completion_tokens + or_0(usage.completion_tokens),
                 total_tokens      |-> token_stats.total_tokens + or_0(usage.total_tokens),
                 call_count        |-> token_stats.call_count + 1]
           ELSE [token_stats EXCEPT !.call_count = @ + 1]
    /\ UNCHANGED <<config_vars, agent_vars, run_vars, os, shell_vars>>

\* OpenAILLM.generate, models.py:95-129.  outcome is what the backend does:
\* "content" (a reply with a content), "none" (a reply whose content is None)
\* or "raises" (the request raises); usage is the usage of the reply.  The
\* counters are touched only after the content is known not to be None.
OpenAILLM_generate(outcome, usage) ==
    /\ token_stats.call_count < MaxGenerateCalls
    /\ token_stats' =
           IF outcome = "content" /\ usage.reported
           THEN [prompt_tokens     |-> token_stats.prompt_tokens + or_0(usage.prompt_tokens),
                 completion_tokens |-> token_stats.completion_tokens + or_0(usage.completion_tokens),
                 total_tokens      |-> token_stats.total_tokens + or_0(usage.total_tokens),
                 call_count        |-> token_stats.call_count + 1]
           ELSE token_stats
    /\ UNCHANGED <<config_vars, agent_vars, run_vars, os, shell_vars>>

\* BaseLLM.reset_token_stats, models.py:54-59.
reset_token_stats ==
    /\ token_stats' = NO_TOKENS
    /\ UNCHANGED <<config_vars, agent_vars, run_vars, os, shell_vars>>

\* The client of a process whose agent is fixed: calls of generate (a request
\* that raises gives no response and so no usage), resets, and the command
\* /clean.
TokenNext ==
    \/ \E outcome \in {"content", "none"}, usage \in Usages :
           OpenAILLM_generate(outcome, usage)
    \/ \E usage \in {u \in Usages : ~u.reported} : OpenAILLM_generate("raises", usage)
    \/ reset_token_stats
    \/ Clean

TokenSpec == ShellInit /\ [][TokenNext]_vars

-----------------------------------------------------------------------------
(* The agent in AUTO mode on the backends of ParserLLMs: what                *)
(* _parse_response makes of a reply shows in what the loop does with it.    *)

ParserInit ==
    /\ SAFE_MODE = TRUE
    /\ llm \in ParserLLMs
    /\ token_stats = NO_TOKENS
    /\ os = [cwd |-> DIR_HOME, environ |-> <<>>]
    /\ auto_mode = TRUE
    /\ require_confirm = FALSE
    /\ max_steps \in 1..MaxSteps
    /\ max_idle_steps \in 1..MaxIdleSteps
    /\ tool = TerminalTool(TRUE, FALSE, SAFE_MODE)
    /\ system_prompt = get_agent_system_prompt(auto_mode)
    /\ history = add_to_history(<<>>, "system", system_prompt)
    /\ pc = "ready"
    /\ steps = <<>>
    /\ current_step = 0
    /\ idle_steps = 0
    /\ returned = NO_RESULT
    /\ llm_calls = 0
    /\ events = <<>>
    /\ shell_log = <<>>
    /\ prompts = <<>>
    /\ run_start = <<>>
    /\ total_calls = 0
    /\ ps_shells = {}
    /\ ps_files = NO_FILES
    /\ ps_call = NO_CALL
    /\ ps_child = Child("none", 0, <<>>, <<>>, <<>>, 0)
    /\ ps_returned = Returned(FALSE, <<>>, <<>>, 0)
    /\ ps_last = [self |-> 0, command |-> <<>>]
    /\ ps_calls = 0

ParserNext ==
    \/ \E task \in {<<>>, TASK}, continue_execution \in BOOLEAN : Run(task, continue_execution)
    \/ LLMReplies
    \/ MaxStepsReached

ParserSpec == ParserInit /\ [][ParserNext]_vars

-----------------------------------------------------------------------------
(* The agent in AUTO mode on the backends of FallbackLLMs, started in any    *)
(* directory: its tool is TerminalTool() (agents.py:144), whose              *)
(* use_persistent_shell is False, so every command takes the path of         *)
(* tools.py:475-574.                                                         *)

FallbackInit ==
    /\ SAFE_MODE = TRUE
    /\ llm \in FallbackLLMs
    /\ token_stats = NO_TOKENS
    /\ os \in OSStates
    /\ auto_mode = TRUE
    /\ require_confirm = FALSE
    /\ max_steps \in 1..MaxSteps
    /\ max_idle_steps \in 1..MaxIdleSteps
    /\ tool = TerminalTool(TRUE, FALSE, SAFE_MODE)
    /\ system_prompt = get_agent_system_prompt(auto_mode)
    /\ history = add_to_history(<<>>, "system", system_prompt)
    /\ pc = "ready"
    /\ steps = <<>>
    /\ current_step = 0
    /\ idle_steps = 0
    /\ returned = NO_RESULT
    /\ llm_calls = 0
    /\ events = <<>>
    /\ shell_log = <<>>
    /\ prompts = <<>>
    /\ run_start = <<>>
    /\ total_calls = 0
    /\ ps_shells = {}
    /\ ps_files = NO_FILES
    /\ ps_call = NO_CALL
    /\ ps_child = Child("none", 0, <<>>, <<>>, <<>>, 0)
    /\ ps_returned = Returned(FALSE, <<>>, <<>>, 0)
    /\ ps_last = [self |-> 0, command |-> <<>>]
    /\ ps_calls = 0

FallbackNext ==
    \/ \E task \in {<<>>, TASK}, continue_execution \in BOOLEAN : Run(task, continue_execution)
    \/ LLMReplies
    \/ MaxStepsReached

FallbackSpec == FallbackInit /\ [][FallbackNext]_vars

-----------------------------------------------------------------------------
(* Properties of CommandAgent.run and TerminalTool.                         *)

\* The assistant messages of the Conversation that carry a command, by position.
CommandAt(i) == PARSED[history[i].content].info.command

IsCommandReply(i) ==
    /\ history[i].role = "assistant"
    /\ ~PARSED[history[i].content].is_none
    /\ "command" \in PARSED[history[i].content].info.keys

DangerousCommands == {c \in CommandUniverse : Config_is_dangerous_command(SAFE_MODE, c)}

\* With Config.SAFE_MODE on, for every tool and every state of the process:
\* validate_command rejects each dangerous command, and execute refuses it with
\* "Dangerous command blocked", asking nothing and running nothing, whatever
\* the user would answer, whatever require_confirm is.
DangerousRefusedByTool ==
    \A self \in Tools, proc \in OSStates :
      \A c \in {d \in CommandUniverse : Config_is_dangerous_command(TRUE, d)} :
        /\ ~validate_command(self, TRUE, c).is_valid
        /\ \A confirm \in [ConfirmKinds -> Answers], fault \in Faults, confirm_first \in BOOLEAN :
                execute(self, TRUE, c, confirm_first, proc, confirm, fault) =
                    Refused(ERR_DANGEROUS_BLOCKED, <<>>, proc)

\* C1: with safe mode on, a command the Safety Oracle calls dangerous is never
\* handed to a shell: no script of the run carries one, the run makes no Step
\* Record of one because validate_command rejects it, and execute refuses it
\* with "Dangerous command blocked" before it asks the user or runs anything,
\* whatever the user would answer.
C1_DangerousNeverHandedToShell ==
    SAFE_MODE =>
        /\ \A i \in DOMAIN shell_log : shell_log[i].command \notin DangerousCommands
        /\ \A k \in DOMAIN steps : steps[k].command \notin DangerousCommands
        /\ DangerousRefusedByTool

\* A dangerous command was replied with safe mode on, and the run answered it
\* with the rejection of validate_command.
C1_Witness ==
    /\ SAFE_MODE
    /\ \E i \in 1..(Len(history) - 1) :
        /\ IsCommandReply(i)
        /\ CommandAt(i) \in DangerousCommands
        /\ history[i + 1] = Message("user", OBSERVATION_INVALID_PREFIX \o
                                            MSG_DANGEROUS_PREFIX \o CommandAt(i))

\* C2: in every run current_step never exceeds max_steps and generate is called
\* at most max_steps times; a run whose loop condition fails returns
\* success=false with the error "Max steps reached"; and, every call of the
\* loop returning, a run that entered its loop returns.
C2_StepBudgetAndTermination ==
    /\ [](current_step <= max_steps /\ llm_calls <= max_steps)
    /\ [][(pc = "loop" /\ current_step >= max_steps) =>
            /\ pc' = "returned"
            /\ returned' = Result({"success", "steps", "error"}, FALSE, <<>>, ERROR_MAX_STEPS)]_vars
    /\ [](pc = "loop" => <>(pc = "returned"))

\* A run used up its steps: generate was called max_steps times and the run
\* returned "Max steps reached".
C2_Witness ==
    /\ pc = "returned"
    /\ returned.error = ERROR_MAX_STEPS
    /\ ~returned.success
    /\ current_step = max_steps
    /\ llm_calls = max_steps
    /\ max_steps = MaxSteps

\* The positions of this run's pairs: an assistant message that carries a
\* command, directly followed by a user message that starts as the Observation
\* template does.
PairPositions ==
    {i \in (Len(run_start) + 1)..(Len(history) - 1) :
        /\ IsCommandReply(i)
        /\ history[i + 1].role = "user"
        /\ startswith(history[i + 1].content, AGENT_OBSERVATION_TEMPLATE_0)}

PairRank(p) == Cardinality({q \in PairPositions : q <= p})

\* C3: the Step Records of a run and the pairs of an assistant message with a
\* command and the Observation that directly follows it are one for one and in
\* the same order: the k-th pair carries the command of the k-th record and the
\* Observation built from that record, and no second user message follows it.
\* A command is handed to a shell only in the iteration that appends its pair,
\* so what the shell was given is in the order of the pairs.
C3_StepRecordsMatchConversation ==
    /\ [](/\ Cardinality(PairPositions) = Len(steps)
          /\ \A p \in PairPositions :
                /\ CommandAt(p) = steps[PairRank(p)].command
                /\ history[p + 1] = Message("user", observation_of(steps[PairRank(p)]))
                /\ p + 2 <= Len(history) => history[p + 2].role = "assistant"
          /\ \A i \in DOMAIN shell_log :
                /\ \E k \in DOMAIN steps :
                      /\ steps[k].step = shell_log[i].step
                      /\ steps[k].command = shell_log[i].command
                /\ \A j \in DOMAIN shell_log : i < j => shell_log[i].step <= shell_log[j].step
          /\ \A k \in DOMAIN steps : \A j \in DOMAIN steps : k < j => steps[k].step < steps[j].step)
    /\ [][shell_log' # shell_log /\ pc = "loop" =>
            \E response \in llm.replies :
                /\ ~PARSED[response].is_none
                /\ "command" \in PARSED[response].info.keys
                /\ steps' = Append(steps, steps'[Len(steps')])
                /\ steps'[Len(steps')].command = PARSED[response].info.command
                /\ history' = history \o
                        <<Message("assistant", response),
                          Message("user", observation_of(steps'[Len(steps')]))>>
                /\ \A i \in (Len(shell_log) + 1)..Len(shell_log') :
                        shell_log'[i].command = PARSED[response].info.command]_vars

\* A run made two Step Records of two different commands and handed both to a
\* shell.
C3_Witness ==
    /\ pc = "returned"
    /\ Len(steps) = 2
    /\ steps[1].command # steps[2].command
    /\ \E i \in DOMAIN shell_log : shell_log[i].command = steps[1].command
    /\ \E i \in DOMAIN shell_log : shell_log[i].command = steps[2].command

\* C4: the Step Records of a run are numbered 1, 2, 3, ...: the k-th record of
\* the list has index k, whatever the iterations before it did.
C4_IndicesContiguous == \A k \in DOMAIN steps : steps[k].step = k

\* The iterations that make no Step Record for want of a usable command: the
\* LLM failed, the reply was not parsed, or the command was rejected.
IdleEvents == {"llm_error", "none_response", "empty_response", "unparseable", "rejected"}

\* How many idle iterations the run has just made in a row.
ConsecutiveIdle ==
    Len(events) - SetMax({0} \cup {i \in DOMAIN events : events[i] \notin IdleEvents})

\* C5: a run never makes more than max_idle_steps idle iterations in a row, of
\* whatever kinds: at the max_idle_steps-th it has returned success=false.
C5_IdleBudget ==
    /\ ConsecutiveIdle <= max_idle_steps
    /\ ConsecutiveIdle = max_idle_steps => pc = "returned" /\ ~returned.success

\* C6: a rejected command counts as one more idle step, and with
\* max_idle_steps = 2 the second of two rejections in a row ends the run with
\* success=false and the summary of invalid commands.
C6_RejectionsEndTheRun ==
    [][events' = Append(events, "rejected") =>
        /\ idle_steps' = idle_steps + 1
        /\ (max_idle_steps = 2 /\ events # <<>> /\ events[Len(events)] = "rejected") =>
                /\ pc' = "returned"
                /\ ~returned'.success
                /\ returned'.summary = SUMMARY_INVALID_COMMANDS]_vars

\* The name and the value of an export command, "" when it is none.
ExportedName(command) ==
    IF startswith(command, SH_EXPORT) /\ find(command, <<"=">>) > Len(SH_EXPORT) + 1
    THEN SubSeq(command, Len(SH_EXPORT) + 1, find(command, <<"=">>) - 1)
    ELSE <<>>

ExportedValue(command) == SubSeq(command, find(command, <<"=">>) + 1, Len(command))

\* C7: the commands of a run are run in one shell session.  What a step
\* exported is what a later step of the run reads (no step between exporting
\* the name again), and the directory a cd of one step went to is the one the
\* pwd of the next step prints.
C7_StatefulShellSession ==
    /\ \A k \in DOMAIN steps : \A j \in DOMAIN steps :
          (/\ k < j
           /\ steps[k].success
           /\ ExportedName(steps[k].command) # <<>>
           /\ steps[j].success
           /\ steps[j].command = SH_ECHO \o <<"$">> \o ExportedName(steps[k].command)
           /\ \A m \in (k + 1)..(j - 1) :
                ExportedName(steps[m].command) # ExportedName(steps[k].command))
          => strip(steps[j].stdout) = ExportedValue(steps[k].command)
    /\ \A k \in DOMAIN steps :
          (/\ k + 1 \in DOMAIN steps
           /\ steps[k].success
           /\ startswith(steps[k].command, SH_CD)
           /\ steps[k + 1].success
           /\ steps[k + 1].command = SH_PWD)
          => strip(steps[k + 1].stdout) = SubSeq(steps[k].command, Len(SH_CD) + 1,
                                                 Len(steps[k].command))

\* C8: from the construction of the agent on, before, during and after each of
\* its runs, the Conversation is not empty and its first message is the system
\* message.
C8_ConversationStartsWithSystem ==
    /\ Len(history) >= 1
    /\ history[1].role = "system"

\* A second run on the same Conversation has returned: the Conversation held
\* the task of an earlier run when this one added its own.
C8_Witness ==
    /\ pc = "returned"
    /\ Cardinality({i \in DOMAIN run_start :
                        run_start[i] = Message("user", format_user_template(TASK))}) >= 2
    /\ Len(history) > Len(run_start)

\* The iterations in which the LLM failed: generate raised, returned None, or
\* returned nothing but whitespace.
LLMFailures == {"llm_error", "none_response", "empty_response"}

\* C9: an iteration in which the LLM fails leaves the Conversation and the
\* steps list as they were and adds one to idle_steps; the run then goes on to
\* its next iteration, unless idle_steps has reached max_idle_steps, and then it
\* returns success=false.
C9_LLMFailureChangesNothing ==
    [][(\E e \in LLMFailures : events' = Append(events, e)) =>
        /\ history' = history
        /\ steps' = steps
        /\ idle_steps' = idle_steps + 1
        /\ IF idle_steps + 1 >= max_idle_steps
           THEN pc' = "returned" /\ ~returned'.success
           ELSE pc' = "loop" /\ returned' = returned]_vars

\* The LLM failed after a command was run, and the run goes on with the
\* Conversation and the Step Record of that command.
C9_Witness ==
    /\ Len(events) = 2
    /\ events[1] = "executed"
    /\ events[2] \in LLMFailures
    /\ pc = "loop"
    /\ idle_steps = 1
    /\ Len(steps) = 1
    /\ history[Len(history)] = Message("user", observation_of(steps[1]))

\* C10: when every reply of the run is empty and max_idle_steps <= max_steps,
\* the run calls the LLM max_idle_steps times and no more, and returns at the
\* last of them success=false with the summary of the empty response; it makes
\* no Step Record and adds no message to the Conversation it started with.
C10_EmptyRepliesEndTheRun ==
    (/\ events # <<>>
     /\ \A i \in DOMAIN events : events[i] = "empty_response"
     /\ max_idle_steps <= max_steps)
    => /\ llm_calls = Len(events)
       /\ llm_calls <= max_idle_steps
       /\ steps = <<>>
       /\ history = run_start
       /\ IF llm_calls = max_idle_steps
          THEN /\ pc = "returned"
               /\ returned = Result({"success", "steps", "summary"}, FALSE,
                                    SUMMARY_EMPTY_RESPONSE, <<>>)
          ELSE pc = "loop"

\* Two empty replies ended a run of max_idle_steps = 2 that was given a task.
C10_Witness ==
    /\ pc = "returned"
    /\ events = <<"empty_response", "empty_response">>
    /\ max_idle_steps = 2
    /\ max_steps = 2
    /\ llm_calls = 2
    /\ history[Len(history)] = Message("user", format_user_template(TASK))

\* The reasons validate_command gives for a rejection of the command.
RejectionReasons(command) ==
    {MSG_EMPTY, MSG_DANGEROUS_PREFIX \o command, MSG_TOO_LONG, MSG_INJECTION_PREFIX \o command}

\* C11: a command that validate_command rejects is not executed and makes no
\* Step Record: the iteration hands nothing to a shell, asks the user nothing,
\* and adds to the Conversation the assistant message and one user message,
\* the rejection prefix followed by the reason.  The loop then goes on, unless
\* idle_steps has reached max_idle_steps, and then the run returns
\* success=false with the summary of invalid commands.  No Step Record and no
\* script of a run is of a command that validate_command rejects, a command of
\* 10001 characters is rejected as too long, and a Terminal reply with a status
\* other than success that follows nothing but rejections returns
\* success=false with no Step Record.
C11_RejectedCommandIsNotRun ==
    /\ [][events' = Append(events, "rejected") =>
            /\ \E response \in llm.replies :
                  /\ ~PARSED[response].is_none
                  /\ "command" \in PARSED[response].info.keys
                  /\ \E v \in {validate_command(tool, SAFE_MODE, PARSED[response].info.command)} :
                        /\ ~v.is_valid
                        /\ v.msg \in RejectionReasons(PARSED[response].info.command)
                        /\ history' = history \o
                              <<Message("assistant", response),
                                Message("user", OBSERVATION_INVALID_PREFIX \o v.msg)>>
            /\ steps' = steps
            /\ shell_log' = shell_log
            /\ prompts' = prompts
            /\ os' = os
            /\ IF idle_steps' >= max_idle_steps
               THEN /\ pc' = "returned"
                    /\ returned' = Result({"success", "steps", "summary"}, FALSE,
                                          SUMMARY_INVALID_COMMANDS, <<>>)
               ELSE pc' = "loop" /\ returned' = returned]_vars
    /\ [](/\ \A k \in DOMAIN steps : validate_command(tool, SAFE_MODE, steps[k].command).is_valid
          /\ \A i \in DOMAIN shell_log :
                validate_command(tool, SAFE_MODE, shell_log[i].command).is_valid
          /\ VALIDATED_LONG = [is_valid |-> FALSE, msg |-> MSG_TOO_LONG]
          /\ (/\ pc = "returned"
              /\ Len(events) >= 2
              /\ events[Len(events)] = "terminal"
              /\ \A i \in 1..(Len(events) - 1) : events[i] = "rejected"
              /\ PARSED[history[Len(history)].content].info.status # STATUS_SUCCESS)
             => /\ ~returned.success
                /\ steps = <<>>
                /\ returned.summary = PARSED[history[Len(history)].content].info.summary)

\* "rm -rf /" was rejected and reported, and the reply after it, status failed
\* with the summary "blocked", ended the run: success=false and no Step Record.
C11_Witness ==
    /\ pc = "returned"
    /\ events = <<"rejected", "terminal">>
    /\ max_idle_steps = 2
    /\ steps = <<>>
    /\ shell_log = <<>>
    /\ ~returned.success
    /\ returned.summary = <<"b","l","o","c","k","e","d">>
    /\ Len(history) = Len(run_start) + 3
    /\ history[Len(run_start) + 1] = Message("assistant", REPLY.RM_ROOT)
    /\ history[Len(run_start) + 2] =
            Message("user", OBSERVATION_INVALID_PREFIX \o MSG_DANGEROUS_PREFIX \o
                            PARSED[REPLY.RM_ROOT].info.command)
    /\ history[Len(run_start) + 3] = Message("assistant", REPLY.FAILED)

\* C11 as it is worded: after every rejected command the loop goes on to the
\* next LLM call.
C11_LoopGoesOnAfterRejection ==
    [][events' = Append(events, "rejected") => pc' = "loop" /\ returned' = returned]_vars

\* The prompts of one kind put to the user in the iteration numbered step.
PromptsOf(step, kind) == {p \in DOMAIN prompts : prompts[p].step = step /\ prompts[p].kind = kind}

\* The commands of the model that neither the Safety Oracle nor
\* validate_command refuses, for a tool and a value of Config.SAFE_MODE.
NotRefused(self, Config_SAFE_MODE) ==
    {c \in CommandUniverse :
        /\ ~(self.safe_mode /\ Config_is_dangerous_command(Config_SAFE_MODE, c))
        /\ self_validate_command(self, Config_SAFE_MODE, c).is_valid}

\* Those of them that begin with "sudo ".
SudoCommandsOf(self, Config_SAFE_MODE) ==
    {c \in NotRefused(self, Config_SAFE_MODE) : startswith(c, <<"s","u","d","o"," ">>)}

SudoCommands == SudoCommandsOf(tool, SAFE_MODE)

\* execute on the sudo commands, for every tool, either value of
\* Config.SAFE_MODE and every state of the process: the sudo confirmation is
\* put first, and unless it is answered with yes nothing is handed to a shell
\* and (False, "", "User cancelled sudo command") is returned.
SudoConfirmedByExecute ==
    \A self \in Tools, Config_SAFE_MODE \in BOOLEAN, proc \in OSStates :
      \A c \in SudoCommandsOf(self, Config_SAFE_MODE) :
        \A confirm \in [ConfirmKinds -> Answers], fault \in Faults, confirm_first \in BOOLEAN :
          \E done \in {execute(self, Config_SAFE_MODE, c, confirm_first, proc, confirm, fault)} :
            /\ Len(done.asked) >= 1
            /\ done.asked[1] = [kind |-> "sudo", answer |-> confirm["sudo"]]
            /\ done.handed # <<>> => confirm["sudo"] = "yes"
            /\ confirm["sudo"] # "yes" =>
                    /\ ~done.success
                    /\ done.stdout = <<>>
                    /\ done.stderr = <<"U","s","e","r"," ","c","a","n","c","e","l","l","e","d"," ",
                                      "s","u","d","o"," ","c","o","m","m","a","n","d">>
                    /\ done.handed = <<>>
                    /\ done.cwd = proc.cwd
                    /\ Len(done.asked) = 1

\* C12: a command that begins with "sudo " and is not refused is run only
\* after a sudo confirmation that the user answered with yes, in AUTO mode and
\* in interactive mode and whatever require_confirm is.  Whatever the user
\* answers and whatever happens to a child process, execute puts the sudo
\* confirmation first; unless the user chooses yes (no is the default: it is
\* what an interrupted prompt gives) it hands nothing to a shell and returns
\* (False, "", "User cancelled sudo command").  In a run, the Step Record of
\* a sudo command has one sudo confirmation in its iteration, and a script of
\* it was handed to a shell only when the answer was yes.
C12_SudoNeedsConfirmation ==
    /\ SudoConfirmedByExecute
    /\ \A k \in DOMAIN steps :
          steps[k].command \in SudoCommands =>
            /\ Cardinality(PromptsOf(steps[k].step, "sudo")) = 1
            /\ \A p \in PromptsOf(steps[k].step, "sudo") :
                  prompts[p].answer # "yes" =>
                    /\ ~steps[k].success
                    /\ steps[k].stdout = <<>>
                    /\ steps[k].stderr = ERR_CANCELLED_SUDO
    /\ \A i \in DOMAIN shell_log :
          shell_log[i].command \in SudoCommands =>
            \E p \in PromptsOf(shell_log[i].step, "sudo") : prompts[p].answer = "yes"

\* In AUTO mode "sudo ls" was replied twice: the user answered the first
\* confirmation with no and the second with yes, and only the second command
\* was handed to a shell.
C12_Witness ==
    /\ auto_mode
    /\ ~require_confirm
    /\ Len(steps) = 2
    /\ steps[1].command = <<"s","u","d","o"," ","l","s">>
    /\ steps[2].command = <<"s","u","d","o"," ","l","s">>
    /\ steps[1].stderr = ERR_CANCELLED_SUDO
    /\ prompts = <<[step |-> 1, kind |-> "sudo", answer |-> "no"],
                   [step |-> 2, kind |-> "sudo", answer |-> "yes"]>>
    /\ \A i \in DOMAIN shell_log : shell_log[i].step = 2
    /\ shell_log # <<>>

\* The commands of the model that contain a high-risk keyword and that neither
\* the Safety Oracle nor validate_command refuses.
HighRiskCommandsOf(self, Config_SAFE_MODE) ==
    {c \in NotRefused(self, Config_SAFE_MODE) :
        \E keyword \in high_risk_keywords : Contains(c, keyword)}

\* HighRiskCommandsOf for every tool and either value of Config.SAFE_MODE,
\* computed once.
HighRiskCommandsTable ==
    Memo([k \in Tools \X BOOLEAN |-> HighRiskCommandsOf(k[1], k[2])])

HighRiskCommands == HighRiskCommandsTable[<<tool, SAFE_MODE>>]

\* execute on the high-risk commands, for every tool with safe mode on,
\* either value of Config.SAFE_MODE and every state of the process: nothing is
\* handed to a shell unless the high-risk confirmation is answered with yes;
\* when execute gets as far as that confirmation it puts it, and unless the
\* answer is yes it returns (False, "", "User cancelled high-risk command").
HighRiskConfirmedByExecute ==
    \A self \in {t \in Tools : t.safe_mode}, Config_SAFE_MODE \in BOOLEAN, proc \in OSStates :
      \A c \in HighRiskCommandsOf(self, Config_SAFE_MODE) :
        \A confirm \in [ConfirmKinds -> Answers], fault \in Faults, confirm_first \in BOOLEAN :
          \E done \in {execute(self, Config_SAFE_MODE, c, confirm_first, proc, confirm, fault)} :
            /\ done.handed # <<>> => confirm["high-risk"] = "yes"
            /\ (startswith(c, <<"s","u","d","o"," ">>) => confirm["sudo"] = "yes") =>
                    /\ done.asked # <<>>
                    /\ done.asked[Len(done.asked)] =
                            [kind |-> "high-risk", answer |-> confirm["high-risk"]]
                    /\ confirm["high-risk"] # "yes" =>
                            /\ ~done.success
                            /\ done.stdout = <<>>
                            /\ done.stderr =
                                  <<"U","s","e","r"," ","c","a","n","c","e","l","l","e","d"," ",
                                    "h","i","g","h","-","r","i","s","k"," ",
                                    "c","o","m","m","a","n","d">>
                            /\ done.handed = <<>>
                            /\ done.cwd = proc.cwd

\* C13: with safe mode on, a command that contains a high-risk keyword and is
\* not refused is run only after a high-risk confirmation that the user
\* answered with yes, in AUTO mode and in interactive mode.  When execute gets
\* as far as the high-risk confirmation (the command is no sudo command, or the
\* sudo confirmation was answered with yes) it puts it, and unless the user
\* chooses yes (no is the default) it hands nothing to a shell and returns
\* (False, "", "User cancelled high-risk command").  In a run a script of a
\* high-risk command was handed to a shell only when the answer to the
\* high-risk confirmation of that iteration was yes.
C13_HighRiskNeedsConfirmation ==
    tool.safe_mode =>
        /\ HighRiskConfirmedByExecute
        /\ \A k \in DOMAIN steps :
              (steps[k].command \in HighRiskCommands /\ steps[k].stderr # ERR_CANCELLED_SUDO) =>
                /\ Cardinality(PromptsOf(steps[k].step, "high-risk")) = 1
                /\ PromptsOf(steps[k].step, "normal") = {}
                /\ \A p \in PromptsOf(steps[k].step, "high-risk") :
                      prompts[p].answer # "yes" =>
                        /\ ~steps[k].success
                        /\ steps[k].stdout = <<>>
                        /\ steps[k].stderr = ERR_CANCELLED_HIGH_RISK
        /\ \A i \in DOMAIN shell_log :
              shell_log[i].command \in HighRiskCommands =>
                \E p \in PromptsOf(shell_log[i].step, "high-risk") : prompts[p].answer = "yes"

\* In AUTO mode with Config.SAFE_MODE on "rm -rf x" was replied twice: the
\* user answered the first confirmation with no and the second with yes, and
\* only the second command was handed to a shell.
C13_Witness ==
    /\ SAFE_MODE
    /\ auto_mode
    /\ Len(steps) = 2
    /\ steps[1].command = <<"r","m"," ","-","r","f"," ","x">>
    /\ steps[2].command = <<"r","m"," ","-","r","f"," ","x">>
    /\ steps[1].stderr = ERR_CANCELLED_HIGH_RISK
    /\ prompts = <<[step |-> 1, kind |-> "high-risk", answer |-> "no"],
                   [step |-> 2, kind |-> "high-risk", answer |-> "yes"]>>
    /\ \A i \in DOMAIN shell_log : shell_log[i].step = 2
    /\ shell_log # <<>>

\* The commands of the model that are neither sudo nor high-risk commands and
\* that neither the Safety Oracle nor validate_command refuses.
PlainCommandsOf(self, Config_SAFE_MODE) ==
    {c \in NotRefused(self, Config_SAFE_MODE) :
        ~RISK[c].is_sudo_command /\ ~RISK[c].is_high_risk}

PlainCommands == PlainCommandsOf(tool, SAFE_MODE)

\* execute on the commands that are neither sudo nor high-risk commands, for
\* every tool, either value of Config.SAFE_MODE and every state of the
\* process: the normal confirmation is the only prompt, it is put exactly when
\* require_confirm is passed as true, and the command is handed to a shell
\* unless that confirmation is answered with no.
PlainConfirmedByExecute ==
    \A self \in Tools, Config_SAFE_MODE \in BOOLEAN, proc \in OSStates :
      \A c \in PlainCommandsOf(self, Config_SAFE_MODE) :
        \A confirm \in [ConfirmKinds -> Answers], fault \in Faults, confirm_first \in BOOLEAN :
          \E done \in {execute(self, Config_SAFE_MODE, c, confirm_first, proc, confirm, fault)} :
            /\ done.asked = IF confirm_first
                            THEN <<[kind |-> "normal", answer |-> confirm["normal"]]>>
                            ELSE <<>>
            /\ done.handed # <<>> <=> (confirm_first => confirm["normal"] # "no")

\* C14: a command that is neither a sudo nor a high-risk command gets the
\* normal confirmation exactly when the agent is interactive and built with
\* require_confirm.  execute asks nothing else about such a command: it puts
\* the normal confirmation when require_confirm is passed as true, runs the
\* command unless the answer is no (yes is the default), and runs it without
\* any prompt when require_confirm is passed as false.  In a run the iteration
\* of such a command has one normal confirmation when the agent is interactive
\* with require_confirm, and no prompt at all in AUTO mode and in interactive
\* mode without require_confirm, where the command is handed to a shell.
C14_NormalConfirmation ==
    /\ PlainConfirmedByExecute
    /\ \A k \in DOMAIN steps :
          steps[k].command \in PlainCommands =>
            /\ PromptsOf(steps[k].step, "sudo") = {}
            /\ PromptsOf(steps[k].step, "high-risk") = {}
            /\ Cardinality(PromptsOf(steps[k].step, "normal")) =
                    IF ~auto_mode /\ require_confirm THEN 1 ELSE 0
            /\ (auto_mode \/ ~require_confirm) =>
                    \E i \in DOMAIN shell_log : shell_log[i].step = steps[k].step
            /\ (\E i \in DOMAIN shell_log : shell_log[i].step = steps[k].step) =>
                    \A p \in PromptsOf(steps[k].step, "normal") : prompts[p].answer # "no"

\* An interactive agent with require_confirm got "ls" twice: the user answered
\* the first normal confirmation with no and the second with yes, and only the
\* second command was handed to a shell.
C14_Witness ==
    /\ ~auto_mode
    /\ require_confirm
    /\ Len(steps) = 2
    /\ steps[1].command = <<"l","s">>
    /\ steps[2].command = <<"l","s">>
    /\ steps[1].stderr = ERR_CANCELLED
    /\ steps[2].success
    /\ prompts = <<[step |-> 1, kind |-> "normal", answer |-> "no"],
                   [step |-> 2, kind |-> "normal", answer |-> "yes"]>>
    /\ \A i \in DOMAIN shell_log : shell_log[i].step = 2
    /\ shell_log # <<>>

\* What execute returns as stderr when the confirmation of a kind is declined.
CancelledStderr(kind) ==
    IF kind = "sudo" THEN ERR_CANCELLED_SUDO
    ELSE IF kind = "high-risk" THEN ERR_CANCELLED_HIGH_RISK
    ELSE ERR_CANCELLED

\* C15: an iteration in which the user answers a confirmation with no, of
\* whichever kind, hands nothing to a shell and leaves the process as it was;
\* it appends a Step Record of the command with success=false, no stdout and
\* the stderr of that kind, which begins with "User cancelled"; it appends
\* the assistant message and, as a user message, the Observation of that
\* record; and the run does not return: it is in its loop, idle_steps 0.
C15_DeclinedConfirmationAbortsTheCommand ==
    [][(/\ Len(prompts') > Len(prompts)
        /\ prompts'[Len(prompts')].answer = "no")
       => /\ shell_log' = shell_log
          /\ os' = os
          /\ \E response \in llm.replies :
                /\ ~PARSED[response].is_none
                /\ steps' = Append(steps,
                        [step    |-> current_step + 1,
                         command |-> PARSED[response].info.command,
                         success |-> FALSE,
                         stdout  |-> <<>>,
                         stderr  |-> CancelledStderr(prompts'[Len(prompts')].kind)])
                /\ history' = history \o
                        <<Message("assistant", response),
                          Message("user", observation_of(steps'[Len(steps')]))>>
          /\ startswith(steps'[Len(steps')].stderr,
                        <<"U","s","e","r"," ","c","a","n","c","e","l","l","e","d">>)
          /\ pc' = "loop"
          /\ returned' = returned
          /\ idle_steps' = 0]_vars

\* The user declined the high-risk confirmation of "rm -rf x"; the run went on
\* to its next LLM call, whose reply, status failed, ended it with the one Step
\* Record of the cancelled command.
C15_Witness ==
    /\ pc = "returned"
    /\ events = <<"executed", "terminal">>
    /\ prompts = <<[step |-> 1, kind |-> "high-risk", answer |-> "no"]>>
    /\ shell_log = <<>>
    /\ Len(steps) = 1
    /\ steps[1].command = <<"r","m"," ","-","r","f"," ","x">>
    /\ ~steps[1].success
    /\ steps[1].stderr = ERR_CANCELLED_HIGH_RISK
    /\ history[Len(history) - 1] = Message("user", observation_of(steps[1]))
    /\ history[Len(history)] = Message("assistant", REPLY.FAILED)

\* C16: an iteration in which the user interrupts a confirmation, of whichever
\* kind, is one in which the confirmation is declined: nothing is handed to a
\* shell, the Step Record of the command has success=false and the stderr of
\* that kind, and the run stays in its loop.
C16_InterruptedConfirmationDeclines ==
    [][(/\ Len(prompts') > Len(prompts)
        /\ prompts'[Len(prompts')].answer = "interrupt")
       => /\ shell_log' = shell_log
          /\ Len(steps') = Len(steps) + 1
          /\ ~steps'[Len(steps')].success
          /\ steps'[Len(steps')].stderr = CancelledStderr(prompts'[Len(prompts')].kind)
          /\ pc' = "loop"]_vars

\* C17: a call of generate that the user interrupts is an LLM failure of its
\* iteration: the Conversation is left as it was, idle_steps gets one more,
\* and the run is in its loop, or has returned success=false when idle_steps
\* has reached max_idle_steps; the interrupt does not leave run.
C17_InterruptedCallIsAnLLMFailure ==
    [][events' = Append(events, "llm_interrupted") =>
        /\ history' = history
        /\ idle_steps' = idle_steps + 1
        /\ pc' # "interrupted"
        /\ IF idle_steps + 1 >= max_idle_steps
           THEN pc' = "returned" /\ ~returned'.success
           ELSE pc' = "loop" /\ returned' = returned]_vars

\* C18: a run that has ended has returned a dict with a boolean success,
\* whichever way it ended; the dict of a run that entered its loop has the
\* steps list of the run, and that of a run ended by an exception raised in an
\* iteration has success=false and the text of the exception as error.
C18_EveryEndReturnsARunResult ==
    /\ pc \in {"ready", "loop", "returned"}
    /\ pc = "returned" =>
          /\ "success" \in returned.keys
          /\ returned.success \in BOOLEAN
          /\ returned.error # ERROR_NO_TASK => "steps" \in returned.keys
          /\ (events # <<>> /\ events[Len(events)] = "exception") =>
                /\ ~returned.success
                /\ "error" \in returned.keys
                /\ returned.error # <<>>

\* The replies of the model that ask the user something.
IsInteractionReply(response) ==
    /\ ~PARSED[response].is_none
    /\ "interaction" \in PARSED[response].info.keys
    /\ PARSED[response].info.interaction

\* What the user can answer to an interaction request: the text of one of its
\* options, or, when it has none, a text typed at the prompt.
UserReplies(response) ==
    IF Len(PARSED[response].info.options) > 0
    THEN {PARSED[response].info.options[k].text : k \in 1..Len(PARSED[response].info.options)}
    ELSE UserTexts \ {<<>>}

\* C19: in interactive mode, an iteration in which the LLM asks the user
\* something and the user gives a reply appends the assistant message and one
\* user message, whose content is the reply as the user gave it; it sets
\* idle_steps to 0, makes no Step Record, hands nothing to a shell, puts no
\* confirmation, and leaves the run in its loop.  In the Conversation of an
\* interactive run, each interaction request after which the run went on is
\* directly followed by one user message with a reply to that request, and
\* that by the next assistant message; a request is the last message only
\* when the run returned at it.
C19_InteractionAppendsTheReply ==
    /\ [][events' = Append(events, "interaction") =>
            /\ ~auto_mode
            /\ \E response \in llm.replies :
                  /\ IsInteractionReply(response)
                  /\ \E user_response \in UserReplies(response) :
                        history' = history \o <<Message("assistant", response),
                                                 Message("user", user_response)>>
            /\ idle_steps' = 0
            /\ steps' = steps
            /\ shell_log' = shell_log
            /\ prompts' = prompts
            /\ os' = os
            /\ pc' = "loop"
            /\ returned' = returned]_vars
    /\ [](~auto_mode =>
            \A i \in (Len(run_start) + 1)..Len(history) :
                (history[i].role = "assistant" /\ IsInteractionReply(history[i].content)) =>
                    IF i = Len(history)
                    THEN pc = "returned" /\ events[Len(events)] = "interaction_cancelled"
                    ELSE /\ history[i + 1].role = "user"
                         /\ history[i + 1].content \in UserReplies(history[i].content)
                         /\ i + 2 <= Len(history) => history[i + 2].role = "assistant")

\* The LLM offered "/tmp" and "/var", the user chose "/var", and the next
\* reply of the LLM, status success, ended the run: no command was run.
C19_Witness ==
    /\ ~auto_mode
    /\ pc = "returned"
    /\ events = <<"interaction", "terminal">>
    /\ returned.success
    /\ steps = <<>>
    /\ shell_log = <<>>
    /\ Len(history) = Len(run_start) + 3
    /\ history[Len(run_start) + 1] = Message("assistant", REPLY.ASK_OPTIONS)
    /\ history[Len(run_start) + 2] = Message("user", <<"/","v","a","r">>)
    /\ history[Len(run_start) + 3] = Message("assistant", REPLY.SUCCESS)

C21_AutoModeIgnoresInteraction ==
    /\ [][(/\ auto_mode
           /\ pc = "loop"
           /\ Len(history') > Len(history)
           /\ history'[Len(history) + 1].role = "assistant"
           /\ IsInteractionReply(history'[Len(history) + 1].content)) =>
            /\ events' = Append(events, "interaction_ignored")
            /\ Len(history') = Len(history) + 1
            /\ SubSeq(history', 1, Len(history)) = history
            /\ steps' = steps
            /\ shell_log' = shell_log
            /\ prompts' = prompts
            /\ os' = os
            /\ pc' = "loop"
            /\ returned' = returned]_vars
    /\ [][events' = Append(events, "interaction_ignored") =>
            /\ auto_mode
            /\ \E response \in llm.replies :
                  /\ IsInteractionReply(response)
                  /\ history' = Append(history, Message("assistant", response))]_vars
    /\ [](auto_mode =>
            /\ \A e \in DOMAIN events : events[e] \notin {"interaction", "interaction_cancelled"}
            /\ \A i \in (Len(run_start) + 1)..Len(history) :
                  (/\ history[i].role = "assistant"
                   /\ IsInteractionReply(history[i].content)
                   /\ i < Len(history)) => history[i + 1].role = "assistant")

\* An AUTO run in which the LLM asked for a directory and then reported
\* success: the two assistant messages are all the run added after the task,
\* and the run made two LLM calls.
C21_Witness ==
    /\ auto_mode
    /\ pc = "returned"
    /\ events = <<"interaction_ignored", "terminal">>
    /\ llm_calls = 2
    /\ steps = <<>>
    /\ shell_log = <<>>
    /\ prompts = <<>>
    /\ history = run_start \o <<Message("assistant", REPLY.ASK_OPTIONS),
                                 Message("assistant", REPLY.SUCCESS)>>

\* The replies of the model whose object has the status success or failed.
IsTerminalReply(response) ==
    /\ ~PARSED[response].is_none
    /\ "status" \in PARSED[response].info.keys
    /\ PARSED[response].info.status \in {STATUS_SUCCESS, <<"f","a","i","l","e","d">>}

\* C22: an iteration whose reply has the status success or failed returns in
\* that iteration: success is true exactly for the status success, the summary
\* is the summary of the object, and the empty text when the object has none,
\* and the steps list is as it was before the iteration.  The iteration
\* appends the assistant message and nothing else, hands nothing to a shell and
\* puts no confirmation.
C22_TerminalEndsTheRun ==
    /\ [][(/\ pc = "loop"
           /\ Len(history') > Len(history)
           /\ history'[Len(history) + 1].role = "assistant"
           /\ IsTerminalReply(history'[Len(history) + 1].content)) =>
            /\ pc' = "returned"
            /\ returned'.keys = {"success", "steps", "summary"}
            /\ returned'.success =
                  (PARSED[history'[Len(history) + 1].content].info.status = <<"s","u","c","c","e","s","s">>)
            /\ returned'.summary =
                  IF "summary" \in PARSED[history'[Len(history) + 1].content].info.keys
                  THEN PARSED[history'[Len(history) + 1].content].info.summary
                  ELSE <<>>
            /\ steps' = steps
            /\ Len(history') = Len(history) + 1
            /\ SubSeq(history', 1, Len(history)) = history
            /\ shell_log' = shell_log
            /\ prompts' = prompts
            /\ os' = os
            /\ llm_calls' = llm_calls + 1]_vars
    /\ [](\A e \in DOMAIN events :
            events[e] = "terminal" =>
                /\ e = Len(events)
                /\ pc = "returned"
                /\ history[Len(history)].role = "assistant")

\* "ls" was run, and the next reply, status success with no summary, ended
\* the run: success with the empty summary and the Step Record of "ls".
C22_Witness ==
    /\ pc = "returned"
    /\ events = <<"executed", "terminal">>
    /\ returned = Result({"success", "steps", "summary"}, TRUE, <<>>, <<>>)
    /\ Len(steps) = 1
    /\ steps[1].command = <<"l","s">>
    /\ Len(shell_log) = 1
    /\ history[Len(history)] = Message("assistant", REPLY.SUCCESS_BARE)
    /\ history[Len(history) - 1] = Message("user", observation_of(steps[1]))

\* The intent that the dispatch order gives to a reply from which an object
\* was parsed: an interaction request first, then a termination for the status
\* success or failed only, then a command for an object with a command field.
DispatchOf(response) ==
    IF IsInteractionReply(response) THEN "interaction"
    ELSE IF IsTerminalReply(response) THEN "terminal"
    ELSE IF "command" \in PARSED[response].info.keys THEN "command"
    ELSE "none"

\* What an iteration did with its reply, by its event: a command is validated,
\* and then rejected or executed (or validation raises on a command that is no
\* text).
HandledAs(event) ==
    IF event \in {"interaction", "interaction_cancelled", "interaction_ignored"}
    THEN "interaction"
    ELSE IF event = "terminal" THEN "terminal"
    ELSE IF event \in {"executed", "rejected", "exception"} THEN "command"
    ELSE "none"

\* C23: an iteration whose reply holds an object with an intent handles it by
\* the dispatch order: as an interaction request when the status is
\* interaction, else as a termination when the status is success or failed,
\* else as a command when there is a command field; so an object with a
\* command field and any other status is validated and executed, and does not
\* end the run as a termination.
C23_DispatchOrder ==
    [][(/\ pc = "loop"
        /\ Len(history') > Len(history)
        /\ history'[Len(history) + 1].role = "assistant"
        /\ ~PARSED[history'[Len(history) + 1].content].is_none
        /\ DispatchOf(history'[Len(history) + 1].content) # "none") =>
         HandledAs(events'[Len(events')]) = DispatchOf(history'[Len(history) + 1].content)]_vars

\* The one intent of a reply: that of the object parsed from it, and none when
\* no object was parsed or the object has neither the status nor the command
\* field of an intent.
IntentOf(response) ==
    IF PARSED[response].is_none THEN "none" ELSE DispatchOf(response)

\* C24: every reply is handled as a command, an interaction request, a
\* termination or as unparseable.  An iteration whose reply holds no intent,
\* as a fenced block with the object {} does, is handled as unparseable: when
\* the reply holds a keyword of a final summary the run returns success with
\* the reply as summary, and else the iteration adds one to idle_steps.
C24_ParserIsTotal ==
    [][(/\ pc = "loop"
        /\ Len(history') > Len(history)
        /\ history'[Len(history) + 1].role = "assistant") =>
         /\ \/ HandledAs(events'[Len(events')]) \in {"command", "interaction", "terminal"}
            \/ events'[Len(events')] \in {"unparseable", "final_summary"}
         /\ IntentOf(history'[Len(history) + 1].content) = "none" =>
                IF is_final_summary(history'[Len(history) + 1].content)
                THEN /\ events'[Len(events')] = "final_summary"
                     /\ pc' = "returned"
                     /\ returned'.success
                     /\ returned'.summary = history'[Len(history) + 1].content
                ELSE /\ events'[Len(events')] = "unparseable"
                     /\ idle_steps' = idle_steps + 1]_vars

\* C25: the keyword fallback is applied to the replies without an intent and
\* to no other: an iteration whose reply holds no intent and holds a keyword of
\* a final summary returns success=true with the reply as summary, and an
\* iteration that ends the run in this way has a reply that holds no intent;
\* a reply with the intent of a command, an interaction request or a
\* termination is never ended by a keyword it holds.
C25_KeywordFallbackOnlyWithoutIntent ==
    [][(/\ pc = "loop"
        /\ Len(history') > Len(history)
        /\ history'[Len(history) + 1].role = "assistant") =>
         /\ (/\ IntentOf(history'[Len(history) + 1].content) = "none"
             /\ is_final_summary(history'[Len(history) + 1].content)) =>
                /\ events'[Len(events')] = "final_summary"
                /\ pc' = "returned"
                /\ returned' = Result({"success", "steps", "summary"}, TRUE,
                                      history'[Len(history) + 1].content, <<>>)
         /\ events'[Len(events')] = "final_summary" =>
                /\ IntentOf(history'[Len(history) + 1].content) = "none"
                /\ is_final_summary(history'[Len(history) + 1].content)]_vars

\* The commands that are invalid whatever the safe mode: empty, blank, or
\* longer than validate_command lets through.
IsInvalidCommand(command) ==
    \/ command = <<>>
    \/ strip(command) = <<>>
    \/ Len(command) > MAX_COMMAND_LENGTH

\* C26: with Config.SAFE_MODE off, validate_command of the tool of the agent
\* accepts every command that is not invalid, the dangerous, the high-risk and
\* the injection-suspected ones included, and rejects the invalid ones; so a
\* run with Config.SAFE_MODE off rejects a command only when it is invalid.
C26_NoSafeModeAcceptsAll ==
    /\ [](~SAFE_MODE =>
            \A command \in CommandUniverse :
                self_validate_command(tool, SAFE_MODE, command).is_valid
                    <=> ~IsInvalidCommand(command))
    /\ [][(/\ ~SAFE_MODE
           /\ pc = "loop"
           /\ events' = Append(events, "rejected")) =>
            IsInvalidCommand(PARSED[history'[Len(history) + 1].content].info.command)]_vars

\* C27: a call run(task, continue_execution) with continue_execution false and
\* a task appends one user message, the task in the user-task template, and
\* enters the loop having made no LLM call; with continue_execution true it
\* enters the loop with the Conversation as it was, whether a task is given or
\* not; with continue_execution false and no task it returns success=false
\* with the error "No task provided", the Conversation as it was and no LLM
\* call made.  The Conversation with which the loop was entered is a prefix
\* of the Conversation at every LLM call of the run.
C27_RunEntry ==
    /\ [][\A task \in {<<>>, TASK}, continue_execution \in BOOLEAN :
            Run(task, continue_execution) =>
                /\ (~continue_execution /\ task # <<>>) =>
                      /\ history' = history \o
                            <<[role |-> "user",
                               content |-> AGENT_USER_TEMPLATE_0 \o task \o AGENT_USER_TEMPLATE_1]>>
                      /\ pc' = "loop"
                /\ continue_execution =>
                      /\ history' = history
                      /\ pc' = "loop"
                /\ (~continue_execution /\ task = <<>>) =>
                      /\ history' = history
                      /\ pc' = "returned"
                      /\ returned'.keys = {"success", "error"}
                      /\ ~returned'.success
                      /\ returned'.error = <<"N","o"," ","t","a","s","k"," ","p","r","o","v","i","d","e","d">>
                /\ llm_calls' = 0
                /\ total_calls' = total_calls
                /\ run_start' = history']_vars
    /\ [](pc \in {"loop", "returned", "interrupted"} =>
            /\ Len(run_start) <= Len(history)
            /\ SubSeq(history, 1, Len(run_start)) = run_start)
    /\ []((pc = "returned" /\ returned.error = ERROR_NO_TASK) =>
            llm_calls = 0 /\ history = run_start)

\* A run that used up its one step on "ls" is continued: the loop is entered
\* again with the Conversation as the first run left it, the observation of
\* "ls" its last message, and no task added.
C27_Witness ==
    /\ pc = "loop"
    /\ llm_calls = 0
    /\ total_calls = 1
    /\ history = run_start
    /\ Len(history) = 4
    /\ history[2] = Message("user", format_user_template(TASK))
    /\ history[3] = Message("assistant", REPLY.LS)
    /\ history[4].role = "user"
    /\ history[4].content # format_user_template(TASK)

\* C28: from the call of run to its end the Conversation only grows at its
\* end: each step of a run leaves the messages it found in their places and
\* unchanged.  The entry of run appends at most the one user message of the
\* task; an iteration appends nothing, or one assistant message, or one
\* assistant message and then one user message, and the Conversation grows
\* only in a step that is the entry of run or an iteration of its loop.  So
\* the Conversation at the entry of the loop is a prefix of the Conversation
\* at every later moment of the run.
C28_ConversationAppendOnly ==
    /\ [][pc = "loop" =>
            /\ Len(history') >= Len(history)
            /\ SubSeq(history', 1, Len(history)) = history
            /\ Len(history') <= Len(history) + 2
            /\ Len(history') >= Len(history) + 1 =>
                  /\ history'[Len(history) + 1].role = "assistant"
                  /\ llm_calls' = llm_calls + 1
                  /\ events' # events
            /\ Len(history') = Len(history) + 2 =>
                  history'[Len(history) + 2].role = "user"]_vars
    /\ [][(pc \in {"ready", "returned"} /\ pc' \in {"loop", "returned"}) =>
            /\ Len(history') >= Len(history)
            /\ SubSeq(history', 1, Len(history)) = history
            /\ Len(history') <= Len(history) + 1
            /\ Len(history') = Len(history) + 1 => history'[Len(history')].role = "user"]_vars
    /\ [][(pc = "loop" /\ pc' \in {"loop", "returned", "interrupted"}) =>
            /\ run_start' = run_start
            /\ SubSeq(history', 1, Len(run_start)) = run_start]_vars

\* A run of two iterations, each of which ran a command: the Conversation is
\* the one the loop was entered with and, after it, assistant, user,
\* assistant, user.
C28_Witness ==
    /\ pc = "returned"
    /\ events = <<"executed", "executed">>
    /\ Len(run_start) >= 2
    /\ Len(history) = Len(run_start) + 4
    /\ SubSeq(history, 1, Len(run_start)) = run_start
    /\ history[Len(run_start) + 1].role = "assistant"
    /\ history[Len(run_start) + 2] = Message("user", observation_of(steps[1]))
    /\ history[Len(run_start) + 3].role = "assistant"
    /\ history[Len(run_start) + 4] = Message("user", observation_of(steps[2]))

\* C29: the Conversation loses messages only in a reset, and right after a
\* reset it is one system message that holds the system prompt of the agent
\* as it is then: the AUTO prompt for an agent in AUTO mode, the interactive
\* prompt for an interactive agent.
C29_ResetReseedsTheActivePrompt ==
    /\ [][(\/ Len(history') < Len(history)
           \/ SubSeq(history', 1, Len(history)) # history) =>
            /\ pc' = "ready"
            /\ history' = <<Message("system", get_agent_system_prompt(auto_mode'))>>]_vars
    /\ [][Clean =>
            /\ auto_mode' = auto_mode
            /\ history' = <<Message("system", get_agent_system_prompt(auto_mode))>>
            /\ system_prompt' = get_agent_system_prompt(auto_mode)]_vars

\* C30: a call of PersistentShell.execute with a timeout whose child has not
\* exited when the timeout has passed kills the child and returns exactly
\* (false, "", "Timeout").
C30_TimeoutReturnsTimeout ==
    [][(/\ ps_call.pc = "loop"
        /\ timed_out(ps_call)
        /\ ps_child.state = "running"
        /\ ps_call'.pc = "idle")
       => /\ ps_child'.state = "killed"
          /\ ps_returned' = Returned(FALSE, <<>>, ERR_TIMEOUT, ps_calls)]_vars

\* A call of execute returns at this step without having timed out.
ExecuteCompleted == ps_call.pc = "loop" /\ ps_call'.pc = "idle" /\ ~timed_out(ps_call)

\* C31: PersistentShell.execute returns success = true exactly when the exit
\* code of the user command is 0, also when the command ends the child shell
\* before exit_code_file is written, as "exit 1" does.
C31_SuccessIsExitCodeZero ==
    [][ExecuteCompleted => (ps_returned'.success <=> ps_child.rc = 0)]_vars

\* C32: for one PersistentShell and any sequence of calls of execute, after a
\* successful "cd X" the next call, when it is execute("pwd"), runs in X and
\* reports the path X, and the cwd of the parent process is X as well.
C32_CdPersists ==
    [][\A X \in Directories :
          (/\ ExecuteCompleted
           /\ ps_call.command = SH_PWD
           /\ ps_call.self = ps_last.self
           /\ ps_last.command = SH_CD \o X
           /\ ps_returned.success)
          => /\ ps_child.cwd = X
             /\ strip(ps_returned'.stdout) = X
             /\ os'.cwd = X]_vars

C32_Witness ==
    /\ ps_calls = 2
    /\ ps_call.pc = "idle"
    /\ ps_last.command = SH_PWD
    /\ ps_returned.call = 2
    /\ ps_returned.stdout = DIR_TMP \o <<"\r", "\n">>
    /\ os.cwd = DIR_TMP

\* C33: for one PersistentShell each call of execute observes the exported
\* environment that the call before it left: after "export FOO=bar" the next
\* call sees FOO with the value bar, and after "unset FOO" the next call does
\* not see FOO.
C33_EnvironmentPersists ==
    [][(/\ ExecuteCompleted
        /\ ps_call.command = SH_ECHO \o <<"$", "F", "O", "O">>
        /\ ps_call.self = ps_last.self
        /\ ps_returned.success)
       => /\ ps_last.command = SH_EXPORT \o <<"F", "O", "O", "=", "b", "a", "r">>
             => ps_returned'.stdout = <<"b", "a", "r", "\r", "\n">>
          /\ ps_last.command = SH_UNSET \o <<"F", "O", "O">>
             => ps_returned'.stdout = <<"\r", "\n">>]_vars

\* C34: two PersistentShell objects of one process use files of their own:
\* creating or closing one of them, and a call of execute on one of them,
\* never writes or removes a file of the other.
C34_ShellsHaveTheirOwnFiles ==
    [][/\ \A self \in 1..MaxShells :
              (PersistentShell_close(self) /\ ps_shells \ {self} # {}) => UNCHANGED ps_files
       /\ \A self \in 1..MaxShells :
              (PersistentShell_init(self) /\ ps_shells # {}) => UNCHANGED ps_files
       /\ (ChildRuns /\ ps_shells \ {ps_call.self} # {}) => UNCHANGED ps_files]_vars

\* C35: the token statistics are monotonic counters: no call of generate makes
\* prompt_tokens, completion_tokens, total_tokens or call_count smaller; a call
\* that fails, or whose reply reports no usage, leaves the four as they are;
\* reset_token_stats sets the four to 0.
C35_TokenStatsMonotonic ==
    [][/\ \A outcome \in {"content", "none", "raises"}, usage \in Usages :
              OpenAILLM_generate(outcome, usage)
              => /\ token_stats'.prompt_tokens >= token_stats.prompt_tokens
                 /\ token_stats'.completion_tokens >= token_stats.completion_tokens
                 /\ token_stats'.total_tokens >= token_stats.total_tokens
                 /\ token_stats'.call_count >= token_stats.call_count
                 /\ (outcome # "content" \/ ~usage.reported) => token_stats' = token_stats
       /\ reset_token_stats
              => /\ token_stats'.prompt_tokens = 0
                 /\ token_stats'.completion_tokens = 0
                 /\ token_stats'.total_tokens = 0
                 /\ token_stats'.call_count = 0]_vars

C35_Witness ==
    /\ token_stats.call_count = 2
    /\ token_stats.prompt_tokens = 2 * MaxUsage
    /\ token_stats.completion_tokens = 1
    /\ token_stats.total_tokens = 0

\* The pass of the loop in which the reply r of the LLM was appended to the
\* conversation as the assistant message.
AppendedReply(r) ==
    /\ pc = "loop"
    /\ Len(history') > Len(history)
    /\ history'[Len(history) + 1].role = "assistant"
    /\ history'[Len(history) + 1].content = r

\* That pass handed exactly the command c to the shell.
HandsOver(c) ==
    /\ Len(shell_log') = Len(shell_log) + 1
    /\ shell_log'[Len(shell_log')].command = c

SH_LS == <<"l","s">>

\* C36: a reply with a fenced json block that holds a valid object and a bare
\* object elsewhere (before or after the block) is handled by the fenced
\* object: the command run is the fenced pwd, never the bare ls.  The bare
\* object is used when there is no fenced block (REPLY.LS, REPLY.PADDED_LS) or
\* when the payload of the block does not parse (REPLY.BARE_LS_FENCED_BAD).
C36_FencedBlockBeatsBareObject ==
    [][/\ AppendedReply(REPLY.FENCED_PWD_BARE_LS) => HandsOver(SH_PWD)
       /\ AppendedReply(REPLY.BARE_LS_FENCED_PWD) => HandsOver(SH_PWD)
       /\ AppendedReply(REPLY.BARE_LS_FENCED_BAD) => HandsOver(SH_LS)
       /\ AppendedReply(REPLY.LS) => HandsOver(SH_LS)
       /\ AppendedReply(REPLY.PADDED_LS) => HandsOver(SH_LS)]_vars

\* A run in which the bare ls stood before the fenced pwd and pwd was run.
C36_Witness ==
    /\ Len(history) >= 3
    /\ history[Len(history) - 1].role = "assistant"
    /\ history[Len(history) - 1].content = REPLY.BARE_LS_FENCED_PWD
    /\ history[Len(history)].role = "user"
    /\ Len(shell_log) >= 1
    /\ shell_log[Len(shell_log)].command = SH_PWD
    /\ shell_log[Len(shell_log)].step = current_step

\* C37: when the first balanced substring from the first { is not JSON, or is
\* an object that is no intent, the scan starts again at the next {: the
\* replies  use {x} then {"command":"ls"}  and  {"a":"b"} then {"command":"ls"}
\* run ls, as the object does alone and inside prose.
C37_ScanRepeatsFromTheNextBrace ==
    [][/\ AppendedReply(REPLY.BRACES_THEN_LS) => HandsOver(SH_LS)
       /\ AppendedReply(REPLY.OTHER_THEN_LS) => HandsOver(SH_LS)
       /\ AppendedReply(REPLY.PADDED_LS) => HandsOver(SH_LS)
       /\ AppendedReply(REPLY.LS) => HandsOver(SH_LS)]_vars

\* Is the first word of the command cd, pushd or popd?
StartsWithDirectoryChange(command) ==
    \E word \in {<<"c","d">>, <<"p","u","s","h","d">>, <<"p","o","p","d">>} :
        \/ strip(command) = word
        \/ startswith(strip(command), word \o <<" ">>)

\* The directory the shell that runs the command is in when the command is
\* over, which is what a pwd joined to the command prints.
DirectoryAfter(command, proc) ==
    ShList(split(uncommented(command), SH_AND),
           [cwd |-> proc.cwd, environ |-> proc.environ, out |-> <<>>, rc |-> 0]).cwd

\* The pass of the loop that ran a command and recorded its step.
StepRecorded == pc = "loop" /\ Len(steps') = Len(steps) + 1

\* C38: on the path without a persistent shell, a successful command whose
\* first word is cd, pushd or popd leaves the process in the directory the
\* command went to; a failed one, and every other command, leave the process
\* where it was; and pwd returns the directory of the process, so the pwd
\* after a successful cd returns the directory of the cd.
C38_DirectoryChangeReachesTheParent ==
    [][StepRecorded =>
         /\ (steps'[Len(steps')].success /\ StartsWithDirectoryChange(steps'[Len(steps')].command))
               => os'.cwd = DirectoryAfter(steps'[Len(steps')].command, os)
         /\ ~(steps'[Len(steps')].success /\ StartsWithDirectoryChange(steps'[Len(steps')].command))
               => os'.cwd = os.cwd
         /\ (steps'[Len(steps')].success /\ steps'[Len(steps')].command = SH_PWD)
               => steps'[Len(steps')].stdout = os.cwd]_vars

C40_ExitCodeIsOfThisCall ==
    [][(ExecuteCompleted /\ ps_files.exit_code_file.exists) =>
          ps_files.exit_code_file.by = ps_calls]_vars
=============================================================================
